---- MODULE Spec2Model ----
(***************************************************************************)
(* A model of push_analytic: the ten product scenarios, the evaluator      *)
(* analyze_client_with_scenarios, its ranking, and the notification        *)
(* renderer with its tone-of-voice validator.                              *)
(*                                                                         *)
(* Numbers.  Money is an integer number of KZT.  A score is an integer     *)
(* number of millionths (SCALE = 1.0); Python computes scores in binary    *)
(* floating point, the model in millionths rounded down.  Text is a        *)
(* sequence of Unicode code points.                                        *)
(***************************************************************************)
EXTENDS Integers, Sequences, FiniteSets, TLC

VARIABLES
  db,             \* the store: [client, txs, trs] of the one customer
  pc,             \* where the running handler stands
  idx,            \* evaluator: index of the scenario of the next iteration
  elapsed,        \* evaluator: time.time() - start_time, in seconds
  month,          \* datetime.now().month
  notifications,  \* evaluator: the list being built, then sorted
  raised,         \* evaluator: scenarios whose iteration ended in the except branch
  timedOut,       \* evaluator: the deadline check broke out of the loop
  failedReads,    \* evaluator: the store reads that failed in this run
  blockedReads,   \* evaluator: the store reads that blocked in this run
  finishedAt,     \* evaluator: elapsed when each appended scenario finished
  reads,          \* evaluator: store reads issued since the run started
  firstRun,       \* what the previous run on the same store returned
  runsLeft,       \* how many more runs the driver starts after this one
  scored,         \* scoring driver: the last [scenario, result] computed
  prio,           \* scoring driver: the last priority computed, with its inputs
  rankIn,         \* ranking driver: the list handed to the sort
  rankOut,        \* ranking driver: the sorted list
  tovIn,          \* renderer driver: the text handed to _validate_message
  tovOut,         \* renderer driver: _validate_message(tovIn)
  tovOut2,        \* renderer driver: _validate_message(tovOut)
  api,            \* HTTP layer: the request being served, its connection and response
  analysis        \* analytics: what analyze_client_transactions returned

vars == <<db, pc, idx, elapsed, month, notifications, raised, timedOut,
          failedReads, blockedReads, finishedAt, reads, firstRun, runsLeft,
          scored, prio, rankIn, rankOut, tovIn, tovOut, tovOut2, api, analysis>>

runVars == <<pc, idx, elapsed, notifications, raised, timedOut, failedReads,
             blockedReads, finishedAt, reads>>

scoreVars == <<scored, prio>>

rankVars == <<rankIn, rankOut>>

tovVars == <<tovIn, tovOut, tovOut2>>

apiVars == <<api, analysis>>

(***************************************************************************)
(* Generic helpers                                                         *)
(***************************************************************************)
SCALE == 1000000

Min(a, b) == IF a <= b THEN a ELSE b

Max(a, b) == IF a >= b THEN a ELSE b

\* Concatenation of F(lo), ..., F(hi), by halving (no deep recursion).
RECURSIVE FlatRange(_, _, _)
FlatRange(F(_), lo, hi) ==
  IF lo > hi THEN <<>>
  ELSE IF lo = hi THEN F(lo)
  ELSE LET mid == (lo + hi) \div 2
       IN  FlatRange(F, lo, mid) \o FlatRange(F, mid + 1, hi)

\* Sum of F(lo), ..., F(hi), by halving.
RECURSIVE SumRange(_, _, _)
SumRange(F(_), lo, hi) ==
  IF lo > hi THEN 0
  ELSE IF lo = hi THEN F(lo)
  ELSE LET mid == (lo + hi) \div 2
       IN  SumRange(F, lo, mid) + SumRange(F, mid + 1, hi)

\* sum(float(r.get('amount', 0)) for r in rows if P(r))
SumAmount(rows, P(_)) ==
  LET f(i) == IF P(rows[i]) THEN rows[i].amount ELSE 0
  IN  SumRange(f, 1, Len(rows))

\* sum(1 for r in rows if P(r))
Count(rows, P(_)) == Cardinality({i \in 1..Len(rows) : P(rows[i])})

\* score * num / den on millionths
Scale(score, num, den) == (score * num) \div den

\* base * score, base in KZT and score in millionths (two digits of each are
\* dropped before the product so that it fits the machine integer)
MulScore(base, score) == ((base \div 100) * (score \div 100)) \div 100

(***************************************************************************)
(* The store and BaseProductScenario                                       *)
(***************************************************************************)
NoClient == [found |-> FALSE]

\* The statuses the scenarios compare against, and one they do not know.
\* Strings are the source's Russian strings in Latin letters, one for one:
\* "Premialnyi klient" is 'Премиальный клиент', "Taksi" is 'Такси'.
Statuses ==
  {"Premialnyi klient", "Zarplatnyi klient", "Standartnyi klient", "Student", "VIP"}

KnownStatuses ==
  {"Premialnyi klient", "Zarplatnyi klient", "Standartnyi klient", "Student"}

\* word in status.lower(), for the four words the scenarios look for
StatusHas(status, word) ==
  \/ word = "premialnyi" /\ status = "Premialnyi klient"
  \/ word = "zarplatnyi" /\ status = "Zarplatnyi klient"
  \/ word = "standartnyi" /\ status = "Standartnyi klient"
  \/ word = "student" /\ status = "Student"

\* RealDatabaseManager.get_client_by_code: {} when the read fails or finds nothing
get_client_by_code(store, fails) ==
  IF fails \/ ~store.client.found THEN NoClient ELSE store.client

\* RealDatabaseManager.execute_query through _get_transactions_period:
\* the failure is caught twice and becomes []
_get_transactions_period(store, fails) == IF fails THEN <<>> ELSE store.txs

_get_transfers_period(store, fails) == IF fails THEN <<>> ELSE store.trs

NoFails == [client |-> FALSE, txs |-> FALSE, trs |-> FALSE]

PeriodDays == 90

\* BaseProductScenario.get_client_data; `fails` says which of the three reads fail
get_client_data(store, fails) ==
  LET client_info == get_client_by_code(store, fails.client)
  IN  IF ~client_info.found
      THEN [found |-> FALSE]
      ELSE [found |-> TRUE,
            client_info |-> client_info,
            transactions |-> _get_transactions_period(store, fails.txs),
            transfers |-> _get_transfers_period(store, fails.trs),
            period_days |-> PeriodDays]

format_analysis_result(score, expected_benefit) ==
  [score |-> score, expected_benefit |-> expected_benefit]

\* format_analysis_result(0, ['Клиент не найден'], 0)
NotFoundResult == format_analysis_result(0, 0)

calculate_basic_score(cd) ==
  LET b == cd.client_info.balance
  IN  IF b < 100000 THEN 100000
      ELSE IF b < 500000 THEN 300000
      ELSE IF b < 1000000 THEN 600000
      ELSE IF b < 3000000 THEN 800000
      ELSE 1000000

\* The attribute a scenario object keeps between calls (travel_data, fx_data, ...):
\* NoStash until the scenario first stores it.
NoStash == [set |-> FALSE]

\* hasattr(self, attr) and self.attr, after this call: what the call stored,
\* else what an earlier call on the same object left
Stashed(now, prev) == IF now.set THEN now ELSE prev

\* months (resp. days) that hold at least one of the rows
MonthsOf(rows, P(_)) == {rows[i].month : i \in {j \in 1..Len(rows) : P(rows[j])}}

AnyRow(r) == TRUE

(***************************************************************************)
(* TravelCardScenario                                                      *)
(***************************************************************************)
TravelCategories == {"Taksi", "Oteli", "Puteshestviya"}

IsTravel(t) == t.category \in TravelCategories

Travel_analyze_client_status(cd) ==
  LET s == cd.client_info.status
  IN  IF StatusHas(s, "premialnyi") THEN 1000000
      ELSE IF StatusHas(s, "zarplatnyi") THEN 800000
      ELSE IF StatusHas(s, "standartnyi") THEN 600000
      ELSE IF StatusHas(s, "student") THEN 400000
      ELSE 500000

\* self.travel_data as _analyze_travel_spending stores it
Travel_data(cd) ==
  LET total == SumAmount(cd.transactions, AnyRow)
      travel == SumAmount(cd.transactions, IsTravel)
  IN  IF cd.transactions = <<>> \/ total = 0 THEN NoStash
      ELSE [set |-> TRUE, total_amount |-> total, travel_amount |-> travel,
            potential_cashback |-> (travel * 4) \div 100]

\* threshold 0.12, min_amount 50000
Travel_analyze_travel_spending(cd) ==
  LET total == SumAmount(cd.transactions, AnyRow)
      travel == SumAmount(cd.transactions, IsTravel)
  IN  IF cd.transactions = <<>> \/ total = 0 THEN 0
      ELSE IF travel * 1000 >= 120 * total /\ travel >= 50000 THEN 1000000
      ELSE IF travel * 1000 >= 96 * total /\ travel >= 40000 THEN 800000
      ELSE IF travel * 1000 >= 60 * total \/ travel >= 25000 THEN 600000
      ELSE IF travel * 1000 >= 24 * total \/ travel >= 10000 THEN 300000
      ELSE 100000

Travel_analyze_travel_regularity(cd) ==
  LET with == Cardinality(MonthsOf(cd.transactions, IsTravel))
      all == Max(1, Cardinality(MonthsOf(cd.transactions, AnyRow)))
  IN  IF cd.transactions = <<>> THEN 0
      ELSE IF with * 10 >= 8 * all THEN 1000000
      ELSE IF with * 10 >= 5 * all THEN 700000
      ELSE IF with * 10 >= 3 * all THEN 400000
      ELSE 100000

\* BaseProductScenario.calculate_expected_benefit (TravelCard does not override it)
Base_calculate_expected_benefit(cd, score) ==
  MulScore((cd.client_info.balance * 2) \div 100, score)

Travel_analyze_client(cd, prev) ==
  IF ~cd.found THEN NotFoundResult
  ELSE
    LET status_score == Travel_analyze_client_status(cd)
        base_score == calculate_basic_score(cd)
        travel_score == Travel_analyze_travel_spending(cd)
        regularity_score == Travel_analyze_travel_regularity(cd)
        score == Scale(status_score, 20, 100) + Scale(base_score, 25, 100)
                 + Scale(travel_score, 40, 100) + Scale(regularity_score, 15, 100)
        s1 == Min(score, SCALE)
        s2 == IF travel_score < 100000 THEN Scale(s1, 3, 10) ELSE s1
        data == Stashed(Travel_data(cd), prev)
        s3 == IF data.set /\ data.travel_amount > 100000
              THEN Min(Scale(s2, 12, 10), SCALE) ELSE s2
    IN  format_analysis_result(s3, Base_calculate_expected_benefit(cd, s3))

(***************************************************************************)
(* PremiumCardScenario                                                     *)
(***************************************************************************)
\* 'Кафе и рестораны', 'Косметика и Парфюмерия', 'Подарки', 'Ювелирные украшения'
PremiumCategories ==
  {"Kafe i restorany", "Kosmetika i Parfyumeriya", "Podarki", "Yuvelirnye ukrasheniya"}

IsPremium(t) == t.category \in PremiumCategories

Premium_analyze_balance(avg_balance) ==
  IF avg_balance >= 6000000 THEN 1000000
  ELSE IF avg_balance >= 1000000 THEN 900000
  ELSE IF avg_balance >= 800000 THEN 800000
  ELSE IF avg_balance >= 500000 THEN 600000
  ELSE IF avg_balance >= 200000 THEN 300000
  ELSE 100000

Premium_analyze_client_status(status) ==
  IF StatusHas(status, "premialnyi") THEN 1000000
  ELSE IF StatusHas(status, "zarplatnyi") THEN 700000
  ELSE IF StatusHas(status, "standartnyi") THEN 400000
  ELSE IF StatusHas(status, "student") THEN 200000
  ELSE 500000

\* self.premium_spending_data as _analyze_premium_spending stores it
Premium_spending_data(cd) ==
  LET total == SumAmount(cd.transactions, AnyRow)
      premium == SumAmount(cd.transactions, IsPremium)
  IN  IF cd.transactions = <<>> \/ total = 0 THEN NoStash
      ELSE [set |-> TRUE, total_amount |-> total, premium_amount |-> premium,
            potential_cashback |-> (premium * 4) \div 100]

Premium_analyze_premium_spending(cd) ==
  LET total == SumAmount(cd.transactions, AnyRow)
      premium == SumAmount(cd.transactions, IsPremium)
  IN  IF cd.transactions = <<>> \/ total = 0 THEN 0
      ELSE IF premium * 100 >= 30 * total THEN 1000000
      ELSE IF premium * 100 >= 20 * total THEN 800000
      ELSE IF premium * 100 >= 10 * total THEN 600000
      ELSE IF premium * 100 >= 5 * total THEN 400000
      ELSE 200000

IncomeTypes == {"salary_in", "stipend_in", "family_in", "card_in"}

IsIncome(t) == t.direction = "in" /\ t.type \in IncomeTypes

IsSalary(t) == IsIncome(t) /\ t.type = "salary_in"

Premium_analyze_income_patterns(cd) ==
  LET total_income == SumAmount(cd.transfers, IsIncome)
      income_count == Count(cd.transfers, IsIncome)
      salary_amount == SumAmount(cd.transfers, IsSalary)
      size == IF total_income >= 500000 * income_count THEN 500000
              ELSE IF total_income >= 200000 * income_count THEN 300000
              ELSE IF total_income >= 100000 * income_count THEN 100000
              ELSE 0
      regular == IF income_count >= 3 THEN 300000
                 ELSE IF income_count >= 1 THEN 100000 ELSE 0
      salary == IF salary_amount > 0 THEN 200000 ELSE 0
  IN  IF cd.transfers = <<>> \/ total_income = 0 THEN 0
      ELSE Min(size + regular + salary, SCALE)

\* len(rows) / period_days * 30 >= n
MonthlyAtLeast(rows, period_days, n) == Len(rows) * 30 >= n * period_days

Premium_analyze_activity(cd) ==
  LET tx(n) == MonthlyAtLeast(cd.transactions, cd.period_days, n)
      tr(n) == MonthlyAtLeast(cd.transfers, cd.period_days, n)
  IN  IF tx(20) /\ tr(10) THEN 1000000
      ELSE IF tx(15) /\ tr(5) THEN 800000
      ELSE IF tx(10) /\ tr(3) THEN 600000
      ELSE IF tx(5) THEN 400000
      ELSE 200000

Premium_calculate_expected_benefit(cd, score, prev) ==
  LET avg_balance == cd.client_info.balance
      data == Stashed(Premium_spending_data(cd), prev)
      base == (avg_balance * 2) \div 100
              + (IF data.set THEN data.potential_cashback ELSE 0)
      tiered == IF avg_balance >= 6000000 THEN (base * 3) \div 2
                ELSE IF avg_balance >= 1000000 THEN (base * 5) \div 4
                ELSE base
  IN  MulScore(tiered, score)

Premium_analyze_client(cd, prev) ==
  IF ~cd.found THEN NotFoundResult
  ELSE
    LET avg_balance == cd.client_info.balance
        client_status == cd.client_info.status
        score == Scale(Premium_analyze_balance(avg_balance), 40, 100)
                 + Scale(Premium_analyze_client_status(client_status), 20, 100)
                 + Scale(Premium_analyze_premium_spending(cd), 20, 100)
                 + Scale(Premium_analyze_income_patterns(cd), 10, 100)
                 + Scale(Premium_analyze_activity(cd), 10, 100)
        s1 == Min(score, SCALE)
        s2 == IF avg_balance < 500000 THEN Scale(s1, 3, 10)
              ELSE IF avg_balance < 800000 THEN Scale(s1, 6, 10)
              ELSE s1
        s3 == IF StatusHas(client_status, "premialnyi")
              THEN Min(Scale(s2, 12, 10), SCALE) ELSE s2
    IN  format_analysis_result(s3, Premium_calculate_expected_benefit(cd, s3, prev))

(***************************************************************************)
(* CreditCardScenario                                                      *)
(***************************************************************************)
\* num / den in millionths, rounded down, for 0 <= num <= den (long division in
\* two steps of three digits, so that no product leaves the machine integer)
Ratio(num, den) ==
  LET q1 == (num * 1000) \div den
      r1 == (num * 1000) % den
  IN  q1 * 1000 + (r1 * 1000) \div den

\* min(num / den * k, 1.0) in millionths
CappedRatio(num, den, knum, kden) ==
  IF num * knum >= den * kden THEN SCALE
  ELSE (Ratio(num, den) * knum) \div kden

Credit_analyze_financial_stability(avg_balance) ==
  IF avg_balance >= 1000000 THEN 1000000
  ELSE IF avg_balance >= 500000 THEN 800000
  ELSE IF avg_balance >= 300000 THEN 600000
  ELSE IF avg_balance >= 200000 THEN 400000
  ELSE IF avg_balance >= 100000 THEN 200000
  ELSE 100000

CreditTypes == {"loan_payment_out", "cc_repayment_out", "installment_payment_out"}

IsCreditType(t) == t.type \in CreditTypes

Credit_analyze_credit_behavior(cd) ==
  LET credit_count == Count(cd.transfers, IsCreditType)
  IN  IF cd.transfers = <<>> THEN 0
      ELSE IF credit_count >= 5 THEN 1000000
      ELSE IF credit_count >= 3 THEN 700000
      ELSE IF credit_count >= 1 THEN 400000
      ELSE 100000

\* the seventeen popular_categories
PopularCategories ==
  {"Kafe i restorany", "Produkty pitaniya", "Odezhda i obuv", "Razvlecheniya",
   "Kino", "Igraem doma", "Smotrim doma", "Kosmetika i Parfyumeriya", "Sport",
   "Meditsina", "Avto", "AZS", "Taksi", "Oteli", "Puteshestviya", "Podarki",
   "Yuvelirnye ukrasheniya"}

IsPopular(t) == t.category \in PopularCategories

\* sum(sorted(category_amounts.values(), reverse=True)[:3])
Top3Amount(rows) ==
  LET cats == {rows[i].category : i \in {j \in 1..Len(rows) : IsPopular(rows[j])}}
      amountOf(S) == LET in(t) == t.category \in S IN SumAmount(rows, in)
      sums == {amountOf(S) : S \in {T \in SUBSET cats : Cardinality(T) <= 3}}
  IN  CHOOSE m \in sums : \A n \in sums : n <= m

Credit_analyze_spending_categories(cd) ==
  LET rows == cd.transactions
      total_amount == SumAmount(rows, AnyRow)
      popular_amount == SumAmount(rows, IsPopular)
      ncat == Cardinality({rows[i].category :
                             i \in {j \in 1..Len(rows) : IsPopular(rows[j])}})
      ratio_score == CappedRatio(popular_amount, total_amount, 2, 1)
      diversity_score == CappedRatio(ncat, Cardinality(PopularCategories), 2, 1)
      concentration_score ==
        IF popular_amount > 0
        THEN CappedRatio(Top3Amount(rows), popular_amount, 3, 2) ELSE 0
  IN  IF rows = <<>> \/ total_amount = 0 THEN 0
      ELSE (ratio_score + diversity_score + concentration_score) \div 3

\* weekly_spending is keyed by str(date)[:10], the day
Credit_analyze_spending_regularity(cd) ==
  LET rows == cd.transactions
      days == {<<rows[i].month, rows[i].day>> : i \in 1..Len(rows)}
      spent(d) == LET on(t) == <<t.month, t.day>> = d IN SumAmount(rows, on)
      total == SumAmount(rows, AnyRow)
      n == Cardinality(days)
      \* amount >= avg_weekly * 0.5, avg_weekly = total / n
      active_weeks == Cardinality({d \in days : spent(d) * 2 * n >= total})
  IN  IF rows = <<>> THEN 0
      ELSE IF active_weeks * 10 >= 8 * n THEN 1000000
      ELSE IF active_weeks * 10 >= 6 * n THEN 700000
      ELSE IF active_weeks * 10 >= 4 * n THEN 500000
      ELSE 200000

\* 'Кино', 'Играем дома', 'Смотрим дома'
OnlineCategories == {"Kino", "Igraem doma", "Smotrim doma"}

IsOnline(t) == t.category \in OnlineCategories

\* self.online_spending_data as _analyze_online_spending stores it
Credit_online_spending_data(cd) ==
  LET total == SumAmount(cd.transactions, AnyRow)
      online == SumAmount(cd.transactions, IsOnline)
  IN  IF cd.transactions = <<>> \/ total = 0 THEN NoStash
      ELSE [set |-> TRUE, total_amount |-> total, online_amount |-> online,
            potential_cashback |-> (online * 10) \div 100]

Credit_analyze_online_spending(cd) ==
  LET total == SumAmount(cd.transactions, AnyRow)
      online == SumAmount(cd.transactions, IsOnline)
  IN  IF cd.transactions = <<>> \/ total = 0 THEN 0
      ELSE IF online * 100 >= 30 * total THEN 1000000
      ELSE IF online * 100 >= 20 * total THEN 800000
      ELSE IF online * 100 >= 15 * total THEN 600000
      ELSE IF online * 100 >= 10 * total THEN 400000
      ELSE 200000

Credit_calculate_expected_benefit(cd, score, prev) ==
  LET avg_balance == cd.client_info.balance
      data == Stashed(Credit_online_spending_data(cd), prev)
      base == (avg_balance * 5) \div 100
              + (IF data.set THEN data.potential_cashback ELSE 0)
              + (avg_balance * 2) \div 100
  IN  MulScore(base, score)

Credit_analyze_client(cd, prev) ==
  IF ~cd.found THEN NotFoundResult
  ELSE
    LET avg_balance == cd.client_info.balance
        score == Scale(Credit_analyze_financial_stability(avg_balance), 25, 100)
                 + Scale(Credit_analyze_spending_categories(cd), 35, 100)
                 + Scale(Credit_analyze_online_spending(cd), 20, 100)
                 + Scale(Credit_analyze_spending_regularity(cd), 15, 100)
                 + Scale(Credit_analyze_credit_behavior(cd), 5, 100)
        s1 == Min(score, SCALE)
        s2 == IF avg_balance < 100000 THEN Scale(s1, 3, 10)
              ELSE IF avg_balance < 200000 THEN Scale(s1, 6, 10)
              ELSE s1
        data == Stashed(Credit_online_spending_data(cd), prev)
        s3 == IF data.set /\ data.online_amount * 100 >= 30 * data.total_amount
              THEN Min(Scale(s2, 115, 100), SCALE) ELSE s2
    IN  format_analysis_result(s3, Credit_calculate_expected_benefit(cd, s3, prev))

(***************************************************************************)
(* CurrencyExchangeScenario                                                *)
(***************************************************************************)
Fx_analyze_financial_stability(avg_balance) ==
  IF avg_balance >= 1000000 THEN 1000000
  ELSE IF avg_balance >= 500000 THEN 800000
  ELSE IF avg_balance >= 200000 THEN 600000
  ELSE IF avg_balance >= 100000 THEN 400000
  ELSE IF avg_balance >= 50000 THEN 200000
  ELSE 100000

FxTypes == {"fx_buy", "fx_sell", "deposit_fx_topup_out", "deposit_fx_withdraw_in"}

\* transfer_type in fx_types or currency != 'KZT'
IsFx(t) == t.type \in FxTypes \/ t.currency # "KZT"

\* self.fx_data as _analyze_currency_operations stores it
Fx_data(cd) ==
  LET total == SumAmount(cd.transfers, AnyRow)
      fx == SumAmount(cd.transfers, IsFx)
  IN  IF cd.transfers = <<>> \/ total = 0 THEN NoStash
      ELSE [set |-> TRUE, total_amount |-> total, fx_amount |-> fx,
            fx_count |-> Count(cd.transfers, IsFx),
            potential_savings |-> fx \div 100]

Fx_analyze_currency_operations(cd) ==
  LET total == SumAmount(cd.transfers, AnyRow)
      fx == SumAmount(cd.transfers, IsFx)
  IN  IF cd.transfers = <<>> \/ total = 0 THEN 0
      ELSE IF fx * 100 >= 20 * total THEN 1000000
      ELSE IF fx * 100 >= 10 * total THEN 800000
      ELSE IF fx * 100 >= 5 * total THEN 600000
      ELSE IF fx * 100 >= 2 * total THEN 400000
      ELSE 200000

Fx_analyze_currency_regularity(cd) ==
  LET months_with_fx == Cardinality(MonthsOf(cd.transfers, IsFx))
      total_months == Max(1, Cardinality(MonthsOf(cd.transfers, AnyRow)))
  IN  IF cd.transfers = <<>> THEN 0
      ELSE IF months_with_fx * 10 >= 8 * total_months THEN 1000000
      ELSE IF months_with_fx * 10 >= 6 * total_months THEN 800000
      ELSE IF months_with_fx * 10 >= 4 * total_months THEN 600000
      ELSE IF months_with_fx * 10 >= 2 * total_months THEN 400000
      ELSE 200000

Fx_analyze_currency_amounts(cd) ==
  LET sum == SumAmount(cd.transfers, IsFx)
      n == Count(cd.transfers, IsFx)
  IN  IF cd.transfers = <<>> \/ n = 0 THEN 0
      ELSE IF sum >= 500000 * n THEN 1000000
      ELSE IF sum >= 200000 * n THEN 800000
      ELSE IF sum >= 100000 * n THEN 600000
      ELSE IF sum >= 50000 * n THEN 400000
      ELSE 200000

Fx_calculate_expected_benefit(cd, score, prev) ==
  LET avg_balance == cd.client_info.balance
      data == Stashed(Fx_data(cd), prev)
      base == (avg_balance * 5) \div 1000
              + (IF data.set THEN data.potential_savings ELSE 0)
  IN  MulScore(base, score)

Fx_analyze_client(cd, prev) ==
  IF ~cd.found THEN NotFoundResult
  ELSE
    LET avg_balance == cd.client_info.balance
        score == Scale(Fx_analyze_financial_stability(avg_balance), 20, 100)
                 + Scale(Fx_analyze_currency_operations(cd), 50, 100)
                 + Scale(Fx_analyze_currency_regularity(cd), 20, 100)
                 + Scale(Fx_analyze_currency_amounts(cd), 10, 100)
        s1 == Min(score, SCALE)
        s2 == IF avg_balance < 50000 THEN Scale(s1, 3, 10)
              ELSE IF avg_balance < 100000 THEN Scale(s1, 6, 10)
              ELSE s1
        data == Stashed(Fx_data(cd), prev)
        s3 == IF data.set /\ data.fx_amount * 10 >= data.total_amount
              THEN Min(Scale(s2, 12, 10), SCALE) ELSE s2
    IN  format_analysis_result(s3, Fx_calculate_expected_benefit(cd, s3, prev))

(***************************************************************************)
(* MultiCurrencyDepositScenario                                            *)
(***************************************************************************)
\* the status bonus of the deposit scenarios: 0.2 / 0.1 / 0.05 / 0
StatusBonus(status, premium, salary, standard) ==
  IF status = "Premialnyi klient" THEN premium
  ELSE IF status = "Zarplatnyi klient" THEN salary
  ELSE IF status = "Standartnyi klient" THEN standard
  ELSE 0

Multi_analyze_financial_stability(avg_balance, status) ==
  LET base_score == IF avg_balance >= 5000000 THEN 1000000
                    ELSE IF avg_balance >= 2000000 THEN 800000
                    ELSE IF avg_balance >= 1000000 THEN 600000
                    ELSE IF avg_balance >= 500000 THEN 400000
                    ELSE 100000
  IN  Min(base_score + StatusBonus(status, 200000, 100000, 50000), SCALE)

\* currency and currency.upper() != 'KZT'
NotKZT(t) == t.currency # "KZT"

\* self.currency_activity_data as _analyze_currency_activity stores it
Multi_currency_activity_data(cd) ==
  LET ops == Count(cd.transfers, IsFx) + Count(cd.transactions, NotKZT)
      total == Len(cd.transfers) + Len(cd.transactions)
  IN  IF total = 0 THEN NoStash
      ELSE [set |-> TRUE, currency_operations |-> ops, total_operations |-> total]

Multi_analyze_currency_activity(cd) ==
  LET ops == Count(cd.transfers, IsFx) + Count(cd.transactions, NotKZT)
      total == Len(cd.transfers) + Len(cd.transactions)
  IN  IF total = 0 THEN 0
      ELSE IF ops * 100 >= 30 * total THEN 1000000
      ELSE IF ops * 100 >= 20 * total THEN 800000
      ELSE IF ops * 100 >= 10 * total THEN 600000
      ELSE IF ops * 100 >= 5 * total THEN 400000
      ELSE 100000

IsFxType(t) == t.type \in FxTypes

Multi_analyze_rebalancing_need(cd) ==
  LET ops == Count(cd.transfers, IsFxType)
      total == Len(cd.transfers)
  IN  IF total = 0 THEN 0
      ELSE IF ops * 100 >= 20 * total THEN 1000000
      ELSE IF ops * 100 >= 10 * total THEN 700000
      ELSE IF ops * 100 >= 5 * total THEN 400000
      ELSE 100000

SavingsTypes == {"deposit_topup_out", "deposit_fx_topup_out", "invest_in"}

IsSavingsType(t) == t.type \in SavingsTypes

\* 1.0 / 0.7 / 0.4 / 0.1 by the number of savings operations
Multi_analyze_savings_behavior(cd) ==
  LET n == Count(cd.transfers, IsSavingsType)
  IN  IF n >= 5 THEN 1000000
      ELSE IF n >= 3 THEN 700000
      ELSE IF n >= 1 THEN 400000
      ELSE 100000

\* (0.145 + 0.02 + 0.01) * avg_balance * score
Multi_calculate_expected_benefit(cd, score) ==
  MulScore((cd.client_info.balance * 175) \div 1000, score)

Multi_analyze_client(cd, prev) ==
  IF ~cd.found THEN NotFoundResult
  ELSE
    LET avg_balance == cd.client_info.balance
        status == cd.client_info.status
        score == Scale(Multi_analyze_financial_stability(avg_balance, status), 40, 100)
                 + Scale(Multi_analyze_currency_activity(cd), 35, 100)
                 + Scale(Multi_analyze_rebalancing_need(cd), 15, 100)
                 + Scale(Multi_analyze_savings_behavior(cd), 10, 100)
        s1 == Min(score, SCALE)
        s2 == IF avg_balance < 500000 THEN Scale(s1, 2, 10)
              ELSE IF avg_balance < 1000000 THEN Scale(s1, 6, 10)
              ELSE s1
        data == Stashed(Multi_currency_activity_data(cd), prev)
        s3 == IF data.set /\ data.currency_operations * 10 >= 3 * data.total_operations
              THEN Min(Scale(s2, 12, 10), SCALE) ELSE s2
    IN  format_analysis_result(s3, Multi_calculate_expected_benefit(cd, s3))

(***************************************************************************)
(* SavingsDepositScenario                                                  *)
(***************************************************************************)
Savings_analyze_financial_stability(avg_balance, status) ==
  LET base_score == IF avg_balance >= 10000000 THEN 1000000
                    ELSE IF avg_balance >= 5000000 THEN 900000
                    ELSE IF avg_balance >= 2000000 THEN 700000
                    ELSE IF avg_balance >= 1000000 THEN 400000
                    ELSE 100000
  IN  Min(base_score + StatusBonus(status, 200000, 100000, 50000), SCALE)

\* stability_ratio, which the call also stores in self.balance_stability_data
Savings_analyze_balance_stability(cd) ==
  LET avg_balance == cd.client_info.balance
  IN  IF avg_balance >= 5000000 THEN 900000
      ELSE IF avg_balance >= 2000000 THEN 700000
      ELSE IF avg_balance >= 1000000 THEN 500000
      ELSE 200000

IsNegative(t) == t.amount < 0

\* called with the transfers
Savings_analyze_withdrawal_frequency(rows) ==
  LET w == Count(rows, IsNegative)
      total == Len(rows)
  IN  IF rows = <<>> THEN 500000
      ELSE IF w * 10 <= total THEN 1000000
      ELSE IF w * 10 <= 2 * total THEN 800000
      ELSE IF w * 10 <= 3 * total THEN 600000
      ELSE 300000

Savings_analyze_long_term_investments(rows) ==
  LET n == Count(rows, IsSavingsType)
  IN  IF n >= 5 THEN 1000000
      ELSE IF n >= 3 THEN 700000
      ELSE IF n >= 1 THEN 400000
      ELSE 100000

Savings_analyze_freeze_readiness(cd) ==
  (Savings_analyze_balance_stability(cd)
   + Savings_analyze_withdrawal_frequency(cd.transfers)
   + Savings_analyze_long_term_investments(cd.transfers)) \div 3

Savings_analyze_savings_behavior(cd) ==
  LET n == Count(cd.transfers, IsSavingsType)
  IN  IF n >= 5 THEN 1000000
      ELSE IF n >= 3 THEN 700000
      ELSE IF n >= 1 THEN 400000
      ELSE 100000

Savings_analyze_status_suitability(status) ==
  IF status = "Premialnyi klient" THEN 1000000
  ELSE IF status = "Zarplatnyi klient" THEN 800000
  ELSE IF status = "Standartnyi klient" THEN 600000
  ELSE IF status = "Student" THEN 300000
  ELSE 200000

\* (0.165 + 0.01 + 0.02) * avg_balance * score
Savings_calculate_expected_benefit(cd, score) ==
  MulScore((cd.client_info.balance * 195) \div 1000, score)

Savings_analyze_client(cd, prev) ==
  IF ~cd.found THEN NotFoundResult
  ELSE
    LET avg_balance == cd.client_info.balance
        status == cd.client_info.status
        score == Scale(Savings_analyze_financial_stability(avg_balance, status), 50, 100)
                 + Scale(Savings_analyze_freeze_readiness(cd), 30, 100)
                 + Scale(Savings_analyze_savings_behavior(cd), 15, 100)
                 + Scale(Savings_analyze_status_suitability(status), 5, 100)
        s1 == Min(score, SCALE)
        s2 == IF avg_balance < 1000000 THEN Scale(s1, 1, 10)
              ELSE IF avg_balance < 2000000 THEN Scale(s1, 5, 10)
              ELSE s1
        s3 == IF status \notin KnownStatuses THEN Scale(s2, 3, 10) ELSE s2
        \* balance_stability_data is stored by every call, so never a stale one
        s4 == IF Savings_analyze_balance_stability(cd) >= 800000
              THEN Min(Scale(s3, 115, 100), SCALE) ELSE s3
    IN  format_analysis_result(s4, Savings_calculate_expected_benefit(cd, s4))

(***************************************************************************)
(* AccumulationDepositScenario                                             *)
(***************************************************************************)
Accum_analyze_financial_stability(avg_balance, status) ==
  LET base_score == IF avg_balance >= 2000000 THEN 1000000
                    ELSE IF avg_balance >= 1000000 THEN 800000
                    ELSE IF avg_balance >= 500000 THEN 600000
                    ELSE IF avg_balance >= 200000 THEN 400000
                    ELSE 100000
      status_bonus == IF status = "Student" THEN 50000
                      ELSE StatusBonus(status, 200000, 150000, 100000)
  IN  Min(base_score + status_bonus, SCALE)

\* count / period_days * 30 >= num / den
PerMonthAtLeast(count, period_days, num, den) == count * 30 * den >= num * period_days

Accum_analyze_accumulation_behavior(cd) ==
  LET ops == Count(cd.transfers, IsSavingsType)
      total_amount == SumAmount(cd.transfers, IsSavingsType)
      avg_balance == cd.client_info.balance
      freq(num, den) == PerMonthAtLeast(ops, cd.period_days, num, den)
      \* savings_ratio = total_amount / (avg_balance * 3) if avg_balance > 0 else 0
      ratio(pct) == IF avg_balance > 0 THEN total_amount * 100 >= pct * 3 * avg_balance
                    ELSE 0 >= pct
      frequency_score == IF freq(3, 1) THEN 1000000
                         ELSE IF freq(2, 1) THEN 800000
                         ELSE IF freq(1, 1) THEN 600000
                         ELSE IF freq(1, 2) THEN 400000
                         ELSE 100000
      ratio_score == IF ratio(20) THEN 1000000
                     ELSE IF ratio(15) THEN 800000
                     ELSE IF ratio(10) THEN 600000
                     ELSE IF ratio(5) THEN 400000
                     ELSE 100000
  IN  (frequency_score + ratio_score) \div 2

DepositTypes == {"deposit_topup_out", "deposit_fx_topup_out"}

IsDepositType(t) == t.type \in DepositTypes

Accum_analyze_deposit_regularity(cd) ==
  LET ops == Count(cd.transfers, IsDepositType)
      freq(num, den) == PerMonthAtLeast(ops, cd.period_days, num, den)
  IN  IF freq(2, 1) THEN 1000000
      ELSE IF freq(1, 1) THEN 700000
      ELSE IF freq(1, 2) THEN 400000
      ELSE 100000

\* 1.0 / 0.8 / 0.6 / 0.4 / 0.2
Accum_analyze_status_suitability(status) ==
  IF status = "Premialnyi klient" THEN 1000000
  ELSE IF status = "Zarplatnyi klient" THEN 800000
  ELSE IF status = "Standartnyi klient" THEN 600000
  ELSE IF status = "Student" THEN 400000
  ELSE 200000

\* (0.155 + 0.02 + 0.01) * avg_balance * score
Accum_calculate_expected_benefit(cd, score) ==
  MulScore((cd.client_info.balance * 185) \div 1000, score)

Accum_analyze_client(cd, prev) ==
  IF ~cd.found THEN NotFoundResult
  ELSE
    LET avg_balance == cd.client_info.balance
        status == cd.client_info.status
        score == Scale(Accum_analyze_financial_stability(avg_balance, status), 35, 100)
                 + Scale(Accum_analyze_accumulation_behavior(cd), 40, 100)
                 + Scale(Accum_analyze_deposit_regularity(cd), 15, 100)
                 + Scale(Accum_analyze_status_suitability(status), 10, 100)
        s1 == Min(score, SCALE)
        s2 == IF avg_balance < 200000 THEN Scale(s1, 2, 10)
              ELSE IF avg_balance < 500000 THEN Scale(s1, 6, 10)
              ELSE s1
        s3 == IF status \notin KnownStatuses THEN Scale(s2, 3, 10) ELSE s2
        \* accumulation_data is stored by every call; deposit_frequency >= 2
        s4 == IF PerMonthAtLeast(Count(cd.transfers, IsSavingsType), cd.period_days, 2, 1)
              THEN Min(Scale(s3, 12, 10), SCALE) ELSE s3
    IN  format_analysis_result(s4, Accum_calculate_expected_benefit(cd, s4))

(***************************************************************************)
(* InvestmentsScenario                                                     *)
(***************************************************************************)
Invest_analyze_investment_readiness(avg_balance, status) ==
  LET base_score == IF avg_balance >= 2000000 THEN 1000000
                    ELSE IF avg_balance >= 1000000 THEN 800000
                    ELSE IF avg_balance >= 500000 THEN 600000
                    ELSE IF avg_balance >= 100000 THEN 400000
                    ELSE 100000
      status_bonus == IF status = "Student" THEN 50000
                      ELSE StatusBonus(status, 200000, 150000, 100000)
  IN  Min(base_score + status_bonus, SCALE)

InvestmentTypes == {"invest_in", "invest_out", "deposit_topup_out", "deposit_fx_topup_out"}

IsInvestmentType(t) == t.type \in InvestmentTypes

Invest_analyze_investment_potential(cd) ==
  LET investment_operations == Count(cd.transfers, IsInvestmentType)
      categories == {cd.transactions[i].category : i \in 1..Len(cd.transactions)}
      operations_score == IF investment_operations >= 5 THEN 1000000
                          ELSE IF investment_operations >= 3 THEN 800000
                          ELSE IF investment_operations >= 1 THEN 600000
                          ELSE 200000
      diversity_score == IF Cardinality(categories) >= 8 THEN 1000000
                         ELSE IF Cardinality(categories) >= 5 THEN 800000
                         ELSE IF Cardinality(categories) >= 3 THEN 600000
                         ELSE IF Cardinality(categories) >= 2 THEN 400000
                         ELSE 100000
  IN  (operations_score + diversity_score) \div 2

RiskTypes == {"invest_in", "invest_out", "fx_buy", "fx_sell", "gold_buy_out", "gold_sell_in"}

IsRiskType(t) == t.type \in RiskTypes

Invest_analyze_risk_tolerance(cd) ==
  LET risk_operations == Count(cd.transfers, IsRiskType)
      transaction_activity == Len(cd.transactions)
      risk_score == IF risk_operations >= 3 THEN 1000000
                    ELSE IF risk_operations >= 2 THEN 800000
                    ELSE IF risk_operations >= 1 THEN 600000
                    ELSE 200000
      activity_score == IF transaction_activity >= 30 THEN 1000000
                        ELSE IF transaction_activity >= 20 THEN 800000
                        ELSE IF transaction_activity >= 10 THEN 600000
                        ELSE IF transaction_activity >= 5 THEN 400000
                        ELSE 100000
  IN  (risk_score + activity_score) \div 2

Invest_analyze_status_suitability(status) ==
  IF status = "Premialnyi klient" THEN 1000000
  ELSE IF status = "Zarplatnyi klient" THEN 800000
  ELSE IF status = "Standartnyi klient" THEN 600000
  ELSE IF status = "Student" THEN 400000
  ELSE 200000

\* (0.05 + 0.01 + 0.005) * avg_balance * score
Invest_calculate_expected_benefit(cd, score) ==
  MulScore((cd.client_info.balance * 65) \div 1000, score)

Invest_analyze_client(cd, prev) ==
  IF ~cd.found THEN NotFoundResult
  ELSE
    LET avg_balance == cd.client_info.balance
        status == cd.client_info.status
        score == Scale(Invest_analyze_investment_readiness(avg_balance, status), 30, 100)
                 + Scale(Invest_analyze_investment_potential(cd), 35, 100)
                 + Scale(Invest_analyze_risk_tolerance(cd), 20, 100)
                 + Scale(Invest_analyze_status_suitability(status), 15, 100)
        s1 == Min(score, SCALE)
        s2 == IF avg_balance < 50000 THEN Scale(s1, 3, 10)
              ELSE IF avg_balance < 100000 THEN Scale(s1, 7, 10)
              ELSE s1
        s3 == IF status \notin KnownStatuses THEN Scale(s2, 2, 10) ELSE s2
        s4 == IF avg_balance >= 100000 THEN Min(Scale(s3, 11, 10), SCALE) ELSE s3
    IN  format_analysis_result(s4, Invest_calculate_expected_benefit(cd, s4))

(***************************************************************************)
(* GoldBarsScenario                                                        *)
(***************************************************************************)
Gold_analyze_financial_readiness(avg_balance, status) ==
  LET base_score == IF avg_balance >= 5000000 THEN 1000000
                    ELSE IF avg_balance >= 2000000 THEN 800000
                    ELSE IF avg_balance >= 1000000 THEN 600000
                    ELSE IF avg_balance >= 500000 THEN 400000
                    ELSE 100000
      status_bonus == IF status = "Student" THEN 50000
                      ELSE StatusBonus(status, 200000, 150000, 100000)
  IN  Min(base_score + status_bonus, SCALE)

DiversificationTypes ==
  {"invest_in", "invest_out", "fx_buy", "fx_sell", "deposit_topup_out",
   "deposit_fx_topup_out"}

IsDiversificationType(t) == t.type \in DiversificationTypes

\* self.diversification_data as _analyze_diversification_needs stores it
Gold_diversification_data(cd) ==
  IF cd.transfers = <<>> THEN NoStash
  ELSE [set |-> TRUE,
        diversification_operations |-> Count(cd.transfers, IsDiversificationType),
        total_transfers |-> Len(cd.transfers)]

Gold_analyze_diversification_needs(cd) ==
  LET ops == Count(cd.transfers, IsDiversificationType)
      total == Len(cd.transfers)
  IN  IF total = 0 THEN 0
      ELSE IF ops * 10 >= 4 * total THEN 1000000
      ELSE IF ops * 10 >= 3 * total THEN 800000
      ELSE IF ops * 10 >= 2 * total THEN 600000
      ELSE IF ops * 10 >= total THEN 400000
      ELSE 100000

LongtermTypes == {"deposit_topup_out", "deposit_fx_topup_out", "invest_in", "gold_buy_out"}

IsLongtermType(t) == t.type \in LongtermTypes

Gold_analyze_longterm_behavior(cd) ==
  LET n == Count(cd.transfers, IsLongtermType)
  IN  IF n >= 5 THEN 1000000
      ELSE IF n >= 3 THEN 800000
      ELSE IF n >= 2 THEN 600000
      ELSE IF n >= 1 THEN 400000
      ELSE 100000

Gold_analyze_status_suitability(status) ==
  IF status = "Premialnyi klient" THEN 1000000
  ELSE IF status = "Zarplatnyi klient" THEN 800000
  ELSE IF status = "Standartnyi klient" THEN 600000
  ELSE IF status = "Student" THEN 300000
  ELSE 200000

\* (0.03 + 0.01 + 0.005) * avg_balance * score
Gold_calculate_expected_benefit(cd, score) ==
  MulScore((cd.client_info.balance * 45) \div 1000, score)

Gold_analyze_client(cd, prev) ==
  IF ~cd.found THEN NotFoundResult
  ELSE
    LET avg_balance == cd.client_info.balance
        status == cd.client_info.status
        score == Scale(Gold_analyze_financial_readiness(avg_balance, status), 40, 100)
                 + Scale(Gold_analyze_diversification_needs(cd), 30, 100)
                 + Scale(Gold_analyze_longterm_behavior(cd), 20, 100)
                 + Scale(Gold_analyze_status_suitability(status), 10, 100)
        s1 == Min(score, SCALE)
        s2 == IF avg_balance < 500000 THEN Scale(s1, 2, 10)
              ELSE IF avg_balance < 1000000 THEN Scale(s1, 6, 10)
              ELSE s1
        s3 == IF status \notin KnownStatuses THEN Scale(s2, 3, 10) ELSE s2
        data == Stashed(Gold_diversification_data(cd), prev)
        s4 == IF data.set /\ data.diversification_operations * 10 >= 3 * data.total_transfers
              THEN Min(Scale(s3, 115, 100), SCALE) ELSE s3
    IN  format_analysis_result(s4, Gold_calculate_expected_benefit(cd, s4))

(***************************************************************************)
(* CashCreditScenario                                                      *)
(***************************************************************************)
\* every branch returns before the status bonus, which is dead code
Cash_analyze_financial_stability(avg_balance, status) ==
  IF avg_balance >= 2000000 THEN 1000000
  ELSE IF avg_balance >= 1000000 THEN 800000
  ELSE IF avg_balance >= 500000 THEN 600000
  ELSE IF avg_balance >= 300000 THEN 400000
  ELSE IF avg_balance >= 100000 THEN 200000
  ELSE 100000

\* self.credit_activity_data as _analyze_credit_behavior stores it
Cash_credit_activity_data(cd) ==
  IF cd.transfers = <<>> THEN NoStash
  ELSE [set |-> TRUE, credit_count |-> Count(cd.transfers, IsCreditType),
        total_transfers |-> Len(cd.transfers)]

Cash_analyze_credit_behavior(cd) ==
  LET credit_count == Count(cd.transfers, IsCreditType)
  IN  IF cd.transfers = <<>> THEN 0
      ELSE IF credit_count >= 10 THEN 1000000
      ELSE IF credit_count >= 5 THEN 800000
      ELSE IF credit_count >= 3 THEN 600000
      ELSE IF credit_count >= 1 THEN 400000
      ELSE 100000

\* 'Медицина', 'Ремонт дома', 'Мебель', 'Авто', 'Путешествия',
\* 'Ювелирные украшения', 'Подарки', 'Спа и массаж'
HighValueCategories ==
  {"Meditsina", "Remont doma", "Mebel", "Avto", "Puteshestviya",
   "Yuvelirnye ukrasheniya", "Podarki", "Spa i massazh"}

IsHighValue(t) == t.category \in HighValueCategories

IsOutgoing(t) == t.direction = "out"

Cash_analyze_financing_need(cd) ==
  LET total_amount == SumAmount(cd.transactions, AnyRow)
      high_value_amount == SumAmount(cd.transactions, IsHighValue)
      outgoing_amount == SumAmount(cd.transfers, IsOutgoing)
      high_value_score == CappedRatio(high_value_amount, total_amount, 2, 1)
      \* consumption_ratio = total_amount / (outgoing_amount + 1) if outgoing_amount > 0 else 0
      consumption_score == IF outgoing_amount > 0
                           THEN CappedRatio(total_amount, outgoing_amount + 1, 1, 2)
                           ELSE 0
  IN  IF cd.transactions = <<>> /\ cd.transfers = <<>> THEN 0
      ELSE IF total_amount = 0 THEN 0
      ELSE (high_value_score + consumption_score) \div 2

Cash_analyze_status_suitability(status) ==
  IF status = "Premialnyi klient" THEN 1000000
  ELSE IF status = "Zarplatnyi klient" THEN 800000
  ELSE IF status = "Standartnyi klient" THEN 600000
  ELSE IF status = "Student" THEN 400000
  ELSE 200000

\* (0.1 + 0.02 + 0.01) * avg_balance * score
Cash_calculate_expected_benefit(cd, score) ==
  MulScore((cd.client_info.balance * 13) \div 100, score)

Cash_analyze_client(cd, prev) ==
  IF ~cd.found THEN NotFoundResult
  ELSE
    LET avg_balance == cd.client_info.balance
        status == cd.client_info.status
        score == Scale(Cash_analyze_financial_stability(avg_balance, status), 40, 100)
                 + Scale(Cash_analyze_credit_behavior(cd), 30, 100)
                 + Scale(Cash_analyze_financing_need(cd), 20, 100)
                 + Scale(Cash_analyze_status_suitability(status), 10, 100)
        s1 == Min(score, SCALE)
        s2 == IF avg_balance < 100000 THEN Scale(s1, 2, 10)
              ELSE IF avg_balance < 300000 THEN Scale(s1, 6, 10)
              ELSE s1
        s3 == IF status \notin KnownStatuses THEN Scale(s2, 3, 10) ELSE s2
        data == Stashed(Cash_credit_activity_data(cd), prev)
        s4 == IF data.set /\ data.credit_count * 10 >= 3 * data.total_transfers
              THEN Min(Scale(s3, 12, 10), SCALE) ELSE s3
    IN  format_analysis_result(s4, Cash_calculate_expected_benefit(cd, s4))

(***************************************************************************)
(* The ten scenarios, in the order analyze_client_with_scenarios builds them *)
(***************************************************************************)
\* the keys of the `scenarios` dict
ProductKeys ==
  <<"travel_card", "premium_card", "credit_card", "currency_exchange",
    "multi_currency_deposit", "savings_deposit", "accumulation_deposit",
    "investments", "gold_bars", "cash_credit">>

NumScenarios == Len(ProductKeys)

\* scenario.analyze_client on the data its get_client_data returned; `prev` is
\* what an earlier call left on the same scenario object
analyze_client(i, cd, prev) ==
  CASE i = 1 -> Travel_analyze_client(cd, prev)
    [] i = 2 -> Premium_analyze_client(cd, prev)
    [] i = 3 -> Credit_analyze_client(cd, prev)
    [] i = 4 -> Fx_analyze_client(cd, prev)
    [] i = 5 -> Multi_analyze_client(cd, prev)
    [] i = 6 -> Savings_analyze_client(cd, prev)
    [] i = 7 -> Accum_analyze_client(cd, prev)
    [] i = 8 -> Invest_analyze_client(cd, prev)
    [] i = 9 -> Gold_analyze_client(cd, prev)
    [] i = 10 -> Cash_analyze_client(cd, prev)

(***************************************************************************)
(* Customer snapshots                                                      *)
(***************************************************************************)
Tx(amount, category, m, day) ==
  [amount |-> amount, category |-> category, month |-> m, day |-> day,
   currency |-> "KZT"]

Tr(type, direction, amount, currency, m) ==
  [type |-> type, direction |-> direction, amount |-> amount,
   currency |-> currency, month |-> m]

\* 'Едим дома' is in none of the scenarios' category lists
TxLists ==
  { <<>>,
    <<Tx(120000, "Taksi", 10, 3)>>,
    <<Tx(60000, "Kafe i restorany", 10, 5), Tx(40000, "Kino", 9, 20),
      Tx(120000, "Taksi", 9, 2)>>,
    <<Tx(200000, "Edim doma", 10, 7), Tx(5000, "Puteshestviya", 8, 15)>>,
    <<Tx(90000, "Yuvelirnye ukrasheniya", 10, 1), Tx(30000, "Edim doma", 10, 1),
      Tx(10000, "Igraem doma", 9, 9), Tx(20000, "Oteli", 8, 8)>> }

TrLists ==
  { <<>>,
    <<Tr("salary_in", "in", 320000, "KZT", 10)>>,
    <<Tr("fx_buy", "out", 150000, "USD", 10),
      Tr("deposit_topup_out", "out", 100000, "KZT", 9)>>,
    <<Tr("loan_payment_out", "out", 80000, "KZT", 10),
      Tr("salary_in", "in", 600000, "KZT", 9),
      Tr("invest_in", "in", 50000, "KZT", 8)>>,
    <<Tr("card_out", "out", 20000, "KZT", 10),
      Tr("card_in", "in", 30000, "KZT", 10),
      Tr("atm_withdrawal", "out", 50000, "KZT", 9)>> }

\* avg_monthly_balance_KZT is DECIMAL(15,2) with no sign constraint
Balances == {-100000, 0, 150000, 600000, 1500000, 8000000}

\* code points of 'Айгерим'
NameAigerim == <<1040, 1081, 1075, 1077, 1088, 1080, 1084>>

Client(status, balance) ==
  [found |-> TRUE, name |-> NameAigerim, status |-> status, balance |-> balance]

Snapshots ==
  {[client |-> Client(s, b), txs |-> x, trs |-> r] :
     s \in Statuses, b \in Balances, x \in TxLists, r \in TrLists}
  \cup {[client |-> NoClient, txs |-> <<>>, trs |-> <<>>]}

(***************************************************************************)
(* Idle values of the drivers a specification does not run                 *)
(***************************************************************************)
NoResult == [scenario |-> 0, result |-> NotFoundResult]

RunIdle ==
  /\ pc = "idle" /\ idx = 1 /\ elapsed = 0 /\ month = 1
  /\ notifications = <<>> /\ raised = {} /\ timedOut = FALSE
  /\ failedReads = {} /\ blockedReads = {} /\ finishedAt = {} /\ reads = 0
  /\ firstRun = [ran |-> FALSE, out |-> <<>>, month |-> 1, timedOut |-> FALSE]
  /\ runsLeft = 0

NoPriority == [by |-> "none", score |-> 0, expected_benefit |-> 0, priority |-> "low"]

ScoreIdle == scored = NoResult /\ prio = NoPriority

RankIdle == rankIn = <<>> /\ rankOut = <<>>

TovIdle == tovIn = <<>> /\ tovOut = <<>> /\ tovOut2 = <<>>

\* no request is being served
NoApi ==
  [handler |-> "none", body |-> {}, at |-> "idle", conn |-> "none",
   clients |-> <<>>, rows |-> <<>>, fast |-> <<>>,
   status |-> 0, error |-> "", product |-> "", count |-> 0, writes |-> {}]

\* no transaction analysis has been made
NoAnalysis == [done |-> FALSE]

ApiIdle == api = NoApi /\ analysis = NoAnalysis

(***************************************************************************)
(* Scoring one scenario on one snapshot                                    *)
(***************************************************************************)
InitScore == db \in Snapshots /\ RunIdle /\ ScoreIdle /\ RankIdle /\ TovIdle /\ ApiIdle

\* scenario.analyze_client(client_code, days, db_manager) on a fresh scenario object
ScoreScenario ==
  \E i \in 1..NumScenarios :
    /\ scored' = [scenario |-> i,
                  result |-> analyze_client(i, get_client_data(db, NoFails), NoStash)]
    /\ UNCHANGED <<db, month, firstRun, runsLeft>>
    /\ UNCHANGED runVars /\ UNCHANGED rankVars /\ UNCHANGED tovVars
    /\ UNCHANGED prio /\ UNCHANGED apiVars

NextScore == ScoreScenario

SpecScore == InitScore /\ [][NextScore]_vars

\* C8: for every scenario and every input the returned score lies in [0,1] and
\* the returned expected benefit is not negative.
C8_ScoreRange ==
  scored.scenario # 0 =>
    /\ 0 <= scored.result.score /\ scored.result.score <= SCALE
    /\ scored.result.expected_benefit >= 0

(***************************************************************************)
(* Text: MessageTemplates and the renderer of ScenarioIntegration          *)
(***************************************************************************)
\* One piece of a format string: literal text, or a {key} to substitute.
Lit(text) == [key |-> "", lit |-> text]

Var(key) == [key |-> key, lit |-> <<>>]

\* MessageTemplates.templates, for the product types the ten scenarios map to:
\* per type the format strings 'template' and 'with_amount'.
templates ==
  \* travel_card / template:
  \*   {name}, в {month} у вас {trip_count} поездок на такси на {amount} ₸. С
  \*   тревел-картой вернули бы {cashback} ₸ кешбэком. Хотите оформить?
  \* travel_card / with_amount:
  \*   {name}, в {month} у вас {trip_count} поездок на такси на {amount} ₸. С
  \*   тревел-картой вернули бы {cashback} ₸ кешбэком. Хотите оформить?
  [ travel_card |->
      [template |->
         <<Var("name"), Lit(<<44, 32, 1074, 32>>), Var("month"), Lit(<<32,
         1091, 32, 1074, 1072, 1089, 32>>), Var("trip_count"), Lit(<<32,
         1087, 1086, 1077, 1079, 1076, 1086, 1082, 32, 1085, 1072, 32, 1090,
         1072, 1082, 1089, 1080, 32, 1085, 1072, 32>>), Var("amount"),
         Lit(<<32, 8376, 46, 32, 1057, 32, 1090, 1088, 1077, 1074, 1077,
         1083, 45, 1082, 1072, 1088, 1090, 1086, 1081, 32, 1074, 1077, 1088,
         1085, 1091, 1083, 1080, 32, 1073, 1099, 32>>), Var("cashback"),
         Lit(<<32, 8376, 32, 1082, 1077, 1096, 1073, 1101, 1082, 1086, 1084,
         46, 32, 1061, 1086, 1090, 1080, 1090, 1077, 32, 1086, 1092, 1086,
         1088, 1084, 1080, 1090, 1100, 63>>)>>,
       with_amount |->
         <<Var("name"), Lit(<<44, 32, 1074, 32>>), Var("month"), Lit(<<32,
         1091, 32, 1074, 1072, 1089, 32>>), Var("trip_count"), Lit(<<32,
         1087, 1086, 1077, 1079, 1076, 1086, 1082, 32, 1085, 1072, 32, 1090,
         1072, 1082, 1089, 1080, 32, 1085, 1072, 32>>), Var("amount"),
         Lit(<<32, 8376, 46, 32, 1057, 32, 1090, 1088, 1077, 1074, 1077,
         1083, 45, 1082, 1072, 1088, 1090, 1086, 1081, 32, 1074, 1077, 1088,
         1085, 1091, 1083, 1080, 32, 1073, 1099, 32>>), Var("cashback"),
         Lit(<<32, 8376, 32, 1082, 1077, 1096, 1073, 1101, 1082, 1086, 1084,
         46, 32, 1061, 1086, 1090, 1080, 1090, 1077, 32, 1086, 1092, 1086,
         1088, 1084, 1080, 1090, 1100, 63>>)>>],
  \* premium_card / template:
  \*   {name}, у вас стабильно крупный остаток {balance} ₸ и траты в
  \*   ресторанах. Премиальная карта даст больше кешбэка и бесплатные снятия.
  \*   Оформить карту.
  \* premium_card / with_amount:
  \*   {name}, у вас стабильно крупный остаток {balance} ₸ и траты в
  \*   ресторанах. Премиальная карта даст больше кешбэка и бесплатные снятия.
  \*   Оформить карту.
    premium_card |->
      [template |->
         <<Var("name"), Lit(<<44, 32, 1091, 32, 1074, 1072, 1089, 32, 1089,
         1090, 1072, 1073, 1080, 1083, 1100, 1085, 1086, 32, 1082, 1088,
         1091, 1087, 1085, 1099, 1081, 32, 1086, 1089, 1090, 1072, 1090,
         1086, 1082, 32>>), Var("balance"), Lit(<<32, 8376, 32, 1080, 32,
         1090, 1088, 1072, 1090, 1099, 32, 1074, 32, 1088, 1077, 1089, 1090,
         1086, 1088, 1072, 1085, 1072, 1093, 46, 32, 1055, 1088, 1077, 1084,
         1080, 1072, 1083, 1100, 1085, 1072, 1103, 32, 1082, 1072, 1088,
         1090, 1072, 32, 1076, 1072, 1089, 1090, 32, 1073, 1086, 1083, 1100,
         1096, 1077, 32, 1082, 1077, 1096, 1073, 1101, 1082, 1072, 32, 1080,
         32, 1073, 1077, 1089, 1087, 1083, 1072, 1090, 1085, 1099, 1077, 32,
         1089, 1085, 1103, 1090, 1080, 1103, 46, 32, 1054, 1092, 1086, 1088,
         1084, 1080, 1090, 1100, 32, 1082, 1072, 1088, 1090, 1091, 46>>)>>,
       with_amount |->
         <<Var("name"), Lit(<<44, 32, 1091, 32, 1074, 1072, 1089, 32, 1089,
         1090, 1072, 1073, 1080, 1083, 1100, 1085, 1086, 32, 1082, 1088,
         1091, 1087, 1085, 1099, 1081, 32, 1086, 1089, 1090, 1072, 1090,
         1086, 1082, 32>>), Var("balance"), Lit(<<32, 8376, 32, 1080, 32,
         1090, 1088, 1072, 1090, 1099, 32, 1074, 32, 1088, 1077, 1089, 1090,
         1086, 1088, 1072, 1085, 1072, 1093, 46, 32, 1055, 1088, 1077, 1084,
         1080, 1072, 1083, 1100, 1085, 1072, 1103, 32, 1082, 1072, 1088,
         1090, 1072, 32, 1076, 1072, 1089, 1090, 32, 1073, 1086, 1083, 1100,
         1096, 1077, 32, 1082, 1077, 1096, 1073, 1101, 1082, 1072, 32, 1080,
         32, 1073, 1077, 1089, 1087, 1083, 1072, 1090, 1085, 1099, 1077, 32,
         1089, 1085, 1103, 1090, 1080, 1103, 46, 32, 1054, 1092, 1086, 1088,
         1084, 1080, 1090, 1100, 32, 1082, 1072, 1088, 1090, 1091, 46>>)>>],
  \* credit_card / template:
  \*   {name}, ваши топ-категории — {cat1}, {cat2}, {cat3}. Кредитная карта
  \*   вернёт до {percent}% именно там. Оформить карту.
  \* credit_card / with_amount:
  \*   {name}, в этом месяце на подписки ушло {amount} ₸. Карта с кешбэком
  \*   вернула бы {cashback} ₸. Открыть карту.
    credit_card |->
      [template |->
         <<Var("name"), Lit(<<44, 32, 1074, 1072, 1096, 1080, 32, 1090,
         1086, 1087, 45, 1082, 1072, 1090, 1077, 1075, 1086, 1088, 1080,
         1080, 32, 8212, 32>>), Var("cat1"), Lit(<<44, 32>>), Var("cat2"),
         Lit(<<44, 32>>), Var("cat3"), Lit(<<46, 32, 1050, 1088, 1077, 1076,
         1080, 1090, 1085, 1072, 1103, 32, 1082, 1072, 1088, 1090, 1072, 32,
         1074, 1077, 1088, 1085, 1105, 1090, 32, 1076, 1086, 32>>),
         Var("percent"), Lit(<<37, 32, 1080, 1084, 1077, 1085, 1085, 1086,
         32, 1090, 1072, 1084, 46, 32, 1054, 1092, 1086, 1088, 1084, 1080,
         1090, 1100, 32, 1082, 1072, 1088, 1090, 1091, 46>>)>>,
       with_amount |->
         <<Var("name"), Lit(<<44, 32, 1074, 32, 1101, 1090, 1086, 1084, 32,
         1084, 1077, 1089, 1103, 1094, 1077, 32, 1085, 1072, 32, 1087, 1086,
         1076, 1087, 1080, 1089, 1082, 1080, 32, 1091, 1096, 1083, 1086,
         32>>), Var("amount"), Lit(<<32, 8376, 46, 32, 1050, 1072, 1088,
         1090, 1072, 32, 1089, 32, 1082, 1077, 1096, 1073, 1101, 1082, 1086,
         1084, 32, 1074, 1077, 1088, 1085, 1091, 1083, 1072, 32, 1073, 1099,
         32>>), Var("cashback"), Lit(<<32, 8376, 46, 32, 1054, 1090, 1082,
         1088, 1099, 1090, 1100, 32, 1082, 1072, 1088, 1090, 1091, 46>>)>>],
  \* savings_deposit / template:
  \*   {name}, у вас свободно {balance} ₸ на карте. Разместите их на вкладе —
  \*   удобно копить и получать доход. Открыть вклад.
  \* savings_deposit / with_amount:
  \*   {name}, у вас свободно {balance} ₸ на карте. Разместите их на вкладе —
  \*   удобно копить и получать доход. Открыть вклад.
    savings_deposit |->
      [template |->
         <<Var("name"), Lit(<<44, 32, 1091, 32, 1074, 1072, 1089, 32, 1089,
         1074, 1086, 1073, 1086, 1076, 1085, 1086, 32>>), Var("balance"),
         Lit(<<32, 8376, 32, 1085, 1072, 32, 1082, 1072, 1088, 1090, 1077,
         46, 32, 1056, 1072, 1079, 1084, 1077, 1089, 1090, 1080, 1090, 1077,
         32, 1080, 1093, 32, 1085, 1072, 32, 1074, 1082, 1083, 1072, 1076,
         1077, 32, 8212, 32, 1091, 1076, 1086, 1073, 1085, 1086, 32, 1082,
         1086, 1087, 1080, 1090, 1100, 32, 1080, 32, 1087, 1086, 1083, 1091,
         1095, 1072, 1090, 1100, 32, 1076, 1086, 1093, 1086, 1076, 46, 32,
         1054, 1090, 1082, 1088, 1099, 1090, 1100, 32, 1074, 1082, 1083,
         1072, 1076, 46>>)>>,
       with_amount |->
         <<Var("name"), Lit(<<44, 32, 1091, 32, 1074, 1072, 1089, 32, 1089,
         1074, 1086, 1073, 1086, 1076, 1085, 1086, 32>>), Var("balance"),
         Lit(<<32, 8376, 32, 1085, 1072, 32, 1082, 1072, 1088, 1090, 1077,
         46, 32, 1056, 1072, 1079, 1084, 1077, 1089, 1090, 1080, 1090, 1077,
         32, 1080, 1093, 32, 1085, 1072, 32, 1074, 1082, 1083, 1072, 1076,
         1077, 32, 8212, 32, 1091, 1076, 1086, 1073, 1085, 1086, 32, 1082,
         1086, 1087, 1080, 1090, 1100, 32, 1080, 32, 1087, 1086, 1083, 1091,
         1095, 1072, 1090, 1100, 32, 1076, 1086, 1093, 1086, 1076, 46, 32,
         1054, 1090, 1082, 1088, 1099, 1090, 1100, 32, 1074, 1082, 1083,
         1072, 1076, 46>>)>>],
  \* accumulation_deposit / template:
  \*   {name}, за последние {months} месяца у вас остаётся от {min_balance} ₸.
  \*   На вкладе они работали бы на вас. Посмотреть варианты.
  \* accumulation_deposit / with_amount:
  \*   {name}, деньги на карте {balance} ₸ не приносят дохода. На
  \*   накопительном счёте они растут каждый месяц. Открыть счёт.
    accumulation_deposit |->
      [template |->
         <<Var("name"), Lit(<<44, 32, 1079, 1072, 32, 1087, 1086, 1089,
         1083, 1077, 1076, 1085, 1080, 1077, 32>>), Var("months"), Lit(<<32,
         1084, 1077, 1089, 1103, 1094, 1072, 32, 1091, 32, 1074, 1072, 1089,
         32, 1086, 1089, 1090, 1072, 1105, 1090, 1089, 1103, 32, 1086, 1090,
         32>>), Var("min_balance"), Lit(<<32, 8376, 46, 32, 1053, 1072, 32,
         1074, 1082, 1083, 1072, 1076, 1077, 32, 1086, 1085, 1080, 32, 1088,
         1072, 1073, 1086, 1090, 1072, 1083, 1080, 32, 1073, 1099, 32, 1085,
         1072, 32, 1074, 1072, 1089, 46, 32, 1055, 1086, 1089, 1084, 1086,
         1090, 1088, 1077, 1090, 1100, 32, 1074, 1072, 1088, 1080, 1072,
         1085, 1090, 1099, 46>>)>>,
       with_amount |->
         <<Var("name"), Lit(<<44, 32, 1076, 1077, 1085, 1100, 1075, 1080,
         32, 1085, 1072, 32, 1082, 1072, 1088, 1090, 1077, 32>>),
         Var("balance"), Lit(<<32, 8376, 32, 1085, 1077, 32, 1087, 1088,
         1080, 1085, 1086, 1089, 1103, 1090, 32, 1076, 1086, 1093, 1086,
         1076, 1072, 46, 32, 1053, 1072, 32, 1085, 1072, 1082, 1086, 1087,
         1080, 1090, 1077, 1083, 1100, 1085, 1086, 1084, 32, 1089, 1095,
         1105, 1090, 1077, 32, 1086, 1085, 1080, 32, 1088, 1072, 1089, 1090,
         1091, 1090, 32, 1082, 1072, 1078, 1076, 1099, 1081, 32, 1084, 1077,
         1089, 1103, 1094, 46, 32, 1054, 1090, 1082, 1088, 1099, 1090, 1100,
         32, 1089, 1095, 1105, 1090, 46>>)>>],
  \* multi_currency_deposit / template:
  \*   {name}, планируете отпуск в {month}? На вкладе можно накопить быстрее.
  \*   Настроить вклад.
  \* multi_currency_deposit / with_amount:
  \*   {name}, храните {balance} ₸ на карте. На сберегательном счёте это даст
  \*   вознаграждение уже через {period}. Попробовать.
    multi_currency_deposit |->
      [template |->
         <<Var("name"), Lit(<<44, 32, 1087, 1083, 1072, 1085, 1080, 1088,
         1091, 1077, 1090, 1077, 32, 1086, 1090, 1087, 1091, 1089, 1082, 32,
         1074, 32>>), Var("month"), Lit(<<63, 32, 1053, 1072, 32, 1074,
         1082, 1083, 1072, 1076, 1077, 32, 1084, 1086, 1078, 1085, 1086, 32,
         1085, 1072, 1082, 1086, 1087, 1080, 1090, 1100, 32, 1073, 1099,
         1089, 1090, 1088, 1077, 1077, 46, 32, 1053, 1072, 1089, 1090, 1088,
         1086, 1080, 1090, 1100, 32, 1074, 1082, 1083, 1072, 1076, 46>>)>>,
       with_amount |->
         <<Var("name"), Lit(<<44, 32, 1093, 1088, 1072, 1085, 1080, 1090,
         1077, 32>>), Var("balance"), Lit(<<32, 8376, 32, 1085, 1072, 32,
         1082, 1072, 1088, 1090, 1077, 46, 32, 1053, 1072, 32, 1089, 1073,
         1077, 1088, 1077, 1075, 1072, 1090, 1077, 1083, 1100, 1085, 1086,
         1084, 32, 1089, 1095, 1105, 1090, 1077, 32, 1101, 1090, 1086, 32,
         1076, 1072, 1089, 1090, 32, 1074, 1086, 1079, 1085, 1072, 1075,
         1088, 1072, 1078, 1076, 1077, 1085, 1080, 1077, 32, 1091, 1078,
         1077, 32, 1095, 1077, 1088, 1077, 1079, 32>>), Var("period"),
         Lit(<<46, 32, 1055, 1086, 1087, 1088, 1086, 1073, 1086, 1074, 1072,
         1090, 1100, 46>>)>>],
  \* investments / template:
  \*   {name}, попробуйте инвестиции с низким порогом — от {amount} ₸ и без
  \*   комиссии на старт. Открыть счёт.
  \* investments / with_amount:
  \*   {name}, вы накопили {balance} ₸. Инвестиции помогут сохранить и
  \*   приумножить средства. Узнать подробнее.
    investments |->
      [template |->
         <<Var("name"), Lit(<<44, 32, 1087, 1086, 1087, 1088, 1086, 1073,
         1091, 1081, 1090, 1077, 32, 1080, 1085, 1074, 1077, 1089, 1090,
         1080, 1094, 1080, 1080, 32, 1089, 32, 1085, 1080, 1079, 1082, 1080,
         1084, 32, 1087, 1086, 1088, 1086, 1075, 1086, 1084, 32, 8212, 32,
         1086, 1090, 32>>), Var("amount"), Lit(<<32, 8376, 32, 1080, 32,
         1073, 1077, 1079, 32, 1082, 1086, 1084, 1080, 1089, 1089, 1080,
         1080, 32, 1085, 1072, 32, 1089, 1090, 1072, 1088, 1090, 46, 32,
         1054, 1090, 1082, 1088, 1099, 1090, 1100, 32, 1089, 1095, 1105,
         1090, 46>>)>>,
       with_amount |->
         <<Var("name"), Lit(<<44, 32, 1074, 1099, 32, 1085, 1072, 1082,
         1086, 1087, 1080, 1083, 1080, 32>>), Var("balance"), Lit(<<32,
         8376, 46, 32, 1048, 1085, 1074, 1077, 1089, 1090, 1080, 1094, 1080,
         1080, 32, 1087, 1086, 1084, 1086, 1075, 1091, 1090, 32, 1089, 1086,
         1093, 1088, 1072, 1085, 1080, 1090, 1100, 32, 1080, 32, 1087, 1088,
         1080, 1091, 1084, 1085, 1086, 1078, 1080, 1090, 1100, 32, 1089,
         1088, 1077, 1076, 1089, 1090, 1074, 1072, 46, 32, 1059, 1079, 1085,
         1072, 1090, 1100, 32, 1087, 1086, 1076, 1088, 1086, 1073, 1085,
         1077, 1077, 46>>)>>],
  \* currency_exchange / template:
  \*   {name}, вы часто платите в {fx_curr}. В приложении выгодный обмен и
  \*   авто-покупка по курсу {fx_rate}. Настроить обмен.
  \* currency_exchange / with_amount:
  \*   {name}, в {month} вы потратили {amount} ₸ в {fx_curr}. С мультивалютным
  \*   счётом можно избежать комиссий. Подключить.
    currency_exchange |->
      [template |->
         <<Var("name"), Lit(<<44, 32, 1074, 1099, 32, 1095, 1072, 1089,
         1090, 1086, 32, 1087, 1083, 1072, 1090, 1080, 1090, 1077, 32, 1074,
         32>>), Var("fx_curr"), Lit(<<46, 32, 1042, 32, 1087, 1088, 1080,
         1083, 1086, 1078, 1077, 1085, 1080, 1080, 32, 1074, 1099, 1075,
         1086, 1076, 1085, 1099, 1081, 32, 1086, 1073, 1084, 1077, 1085, 32,
         1080, 32, 1072, 1074, 1090, 1086, 45, 1087, 1086, 1082, 1091, 1087,
         1082, 1072, 32, 1087, 1086, 32, 1082, 1091, 1088, 1089, 1091,
         32>>), Var("fx_rate"), Lit(<<46, 32, 1053, 1072, 1089, 1090, 1088,
         1086, 1080, 1090, 1100, 32, 1086, 1073, 1084, 1077, 1085, 46>>)>>,
       with_amount |->
         <<Var("name"), Lit(<<44, 32, 1074, 32>>), Var("month"), Lit(<<32,
         1074, 1099, 32, 1087, 1086, 1090, 1088, 1072, 1090, 1080, 1083,
         1080, 32>>), Var("amount"), Lit(<<32, 8376, 32, 1074, 32>>),
         Var("fx_curr"), Lit(<<46, 32, 1057, 32, 1084, 1091, 1083, 1100,
         1090, 1080, 1074, 1072, 1083, 1102, 1090, 1085, 1099, 1084, 32,
         1089, 1095, 1105, 1090, 1086, 1084, 32, 1084, 1086, 1078, 1085,
         1086, 32, 1080, 1079, 1073, 1077, 1078, 1072, 1090, 1100, 32, 1082,
         1086, 1084, 1080, 1089, 1089, 1080, 1081, 46, 32, 1055, 1086, 1076,
         1082, 1083, 1102, 1095, 1080, 1090, 1100, 46>>)>>],
  \* cash_credit / template:
  \*   {name}, если нужен запас на крупные траты — можно оформить кредит
  \*   наличными до {limit} ₸ с выплатами {terms}. Узнать лимит.
  \* cash_credit / with_amount:
  \*   {name}, собираетесь обновить {purchase_item}? Кредит наличными на
  \*   {amount} ₸ поможет сразу. Узнать лимит.
    cash_credit |->
      [template |->
         <<Var("name"), Lit(<<44, 32, 1077, 1089, 1083, 1080, 32, 1085,
         1091, 1078, 1077, 1085, 32, 1079, 1072, 1087, 1072, 1089, 32, 1085,
         1072, 32, 1082, 1088, 1091, 1087, 1085, 1099, 1077, 32, 1090, 1088,
         1072, 1090, 1099, 32, 8212, 32, 1084, 1086, 1078, 1085, 1086, 32,
         1086, 1092, 1086, 1088, 1084, 1080, 1090, 1100, 32, 1082, 1088,
         1077, 1076, 1080, 1090, 32, 1085, 1072, 1083, 1080, 1095, 1085,
         1099, 1084, 1080, 32, 1076, 1086, 32>>), Var("limit"), Lit(<<32,
         8376, 32, 1089, 32, 1074, 1099, 1087, 1083, 1072, 1090, 1072, 1084,
         1080, 32>>), Var("terms"), Lit(<<46, 32, 1059, 1079, 1085, 1072,
         1090, 1100, 32, 1083, 1080, 1084, 1080, 1090, 46>>)>>,
       with_amount |->
         <<Var("name"), Lit(<<44, 32, 1089, 1086, 1073, 1080, 1088, 1072,
         1077, 1090, 1077, 1089, 1100, 32, 1086, 1073, 1085, 1086, 1074,
         1080, 1090, 1100, 32>>), Var("purchase_item"), Lit(<<63, 32, 1050,
         1088, 1077, 1076, 1080, 1090, 32, 1085, 1072, 1083, 1080, 1095,
         1085, 1099, 1084, 1080, 32, 1085, 1072, 32>>), Var("amount"),
         Lit(<<32, 8376, 32, 1087, 1086, 1084, 1086, 1078, 1077, 1090, 32,
         1089, 1088, 1072, 1079, 1091, 46, 32, 1059, 1079, 1085, 1072, 1090,
         1100, 32, 1083, 1080, 1084, 1080, 1090, 46>>)>>] ]

\* 'Доступен новый продукт. Узнать подробнее?'
GenericTemplate ==
  <<Lit(<<1044, 1086, 1089, 1090, 1091, 1087, 1077, 1085, 32, 1085, 1086,
        1074, 1099, 1081, 32, 1087, 1088, 1086, 1076, 1091, 1082, 1090, 46,
        32, 1059, 1079, 1085, 1072, 1090, 1100, 32, 1087, 1086, 1076, 1088,
        1086, 1073, 1085, 1077, 1077, 63>>)>>

\* 'январе', 'феврале', ..., 'декабре'
MonthNames ==
  <<<<1103, 1085, 1074, 1072, 1088, 1077>>,
    <<1092, 1077, 1074, 1088, 1072, 1083, 1077>>,
    <<1084, 1072, 1088, 1090, 1077>>,
    <<1072, 1087, 1088, 1077, 1083, 1077>>,
    <<1084, 1072, 1077>>,
    <<1080, 1102, 1085, 1077>>,
    <<1080, 1102, 1083, 1077>>,
    <<1072, 1074, 1075, 1091, 1089, 1090, 1077>>,
    <<1089, 1077, 1085, 1090, 1103, 1073, 1088, 1077>>,
    <<1086, 1082, 1090, 1103, 1073, 1088, 1077>>,
    <<1085, 1086, 1103, 1073, 1088, 1077>>,
    <<1076, 1077, 1082, 1072, 1073, 1088, 1077>>>>

\* 'Клиент'
TxtKlient == <<1050, 1083, 1080, 1077, 1085, 1090>>

\* ' млн₸'
TxtMln == <<32, 1084, 1083, 1085, 8376>>

\* '₸'
TxtTenge == <<8376>>

\* 'USD'
TxtUSD == <<85, 83, 68>>

\* '450'
Txt450 == <<52, 53, 48>>

\* 'месяц'
TxtMesyats == <<1084, 1077, 1089, 1103, 1094>>

\* 'до 24 месяцев'
TxtTerms == <<1076, 1086, 32, 50, 52, 32, 1084, 1077, 1089, 1103, 1094, 1077, 1074>>

\* 'технику'
TxtTekhniku == <<1090, 1077, 1093, 1085, 1080, 1082, 1091>>

\* 'онлайн-покупки'
TxtCat1 == <<1086, 1085, 1083, 1072, 1081, 1085, 45, 1087, 1086, 1082, 1091, 1087,
    1082, 1080>>

\* 'доставка'
TxtCat2 == <<1076, 1086, 1089, 1090, 1072, 1074, 1082, 1072>>

\* 'развлечения'
TxtCat3 == <<1088, 1072, 1079, 1074, 1083, 1077, 1095, 1077, 1085, 1080, 1103>>

\* ' Узнать подробнее?'
TxtLearnMore == <<32, 1059, 1079, 1085, 1072, 1090, 1100, 32, 1087, 1086, 1076, 1088,
    1086, 1073, 1085, 1077, 1077, 63>>

\* '...'
TxtEllipsis == <<46, 46, 46>>


\* str(n) for an integer n
RECURSIVE Digits(_)
Digits(n) == IF n < 10 THEN <<48 + n>> ELSE Digits(n \div 10) \o <<48 + (n % 10)>>

Str(n) == IF n < 0 THEN <<45>> \o Digits(-n) ELSE Digits(n)

\* f"{n:,.0f}".replace(',', ' ') for n >= 0
RECURSIVE Grouped(_)
Grouped(n) ==
  IF n < 1000 THEN Digits(n)
  ELSE LET r == n % 1000
       IN  Grouped(n \div 1000) \o <<32, 48 + (r \div 100), 48 + ((r \div 10) % 10),
                                     48 + (r % 10)>>

\* MessageTemplates.format_amount; the value it returns already ends in the
\* currency sign.  {:.1f} rounds to the nearest tenth (ties to even here).
format_amount(amount) ==
  IF amount >= 1000000
  THEN LET q == amount \div 100000
           r == amount % 100000
           tenths == IF 2 * r > 100000 \/ (2 * r = 100000 /\ q % 2 = 1)
                     THEN q + 1 ELSE q
       IN  Digits(tenths \div 10) \o <<44>> \o Digits(tenths % 10) \o TxtMln
  ELSE IF amount >= 1000 THEN Grouped(amount) \o TxtTenge
  ELSE Str(amount) \o TxtTenge

\* MessageTemplates.format_date(datetime.now())
format_date(m) == MonthNames[m]

\* MessageTemplates.get_template
get_template(product_type, with_amount) ==
  IF product_type \notin DOMAIN templates THEN GenericTemplate
  ELSE IF with_amount THEN templates[product_type].with_amount
  ELSE templates[product_type].template

\* the product_name of the ten scenario classes:
\* 'Карта для путешествий', 'Премиальная карта', 'Кредитная карта', 'Обмен валют',
\* 'Депозит Мультивалютный', 'Депозит Сберегательный', 'Депозит Накопительный',
\* 'Инвестиции', 'Золотые слитки', 'Кредит наличными'
ProductNames ==
  <<"Karta dlya puteshestvii", "Premialnaya karta", "Kreditnaya karta",
    "Obmen valyut", "Depozit Multivalyutnyi", "Depozit Sberegatelnyi",
    "Depozit Nakopitelnyi", "Investitsii", "Zolotye slitki", "Kredit nalichnymi">>

\* ScenarioIntegration._map_product_to_type on those names ('Золотые слитки'
\* maps to 'gold_bars', for which there is no template)
_map_product_to_type(product_name) ==
  CASE product_name = "Karta dlya puteshestvii" -> "travel_card"
    [] product_name = "Premialnaya karta" -> "premium_card"
    [] product_name = "Kreditnaya karta" -> "credit_card"
    [] product_name = "Depozit Sberegatelnyi" -> "savings_deposit"
    [] product_name = "Depozit Nakopitelnyi" -> "accumulation_deposit"
    [] product_name = "Depozit Multivalyutnyi" -> "multi_currency_deposit"
    [] product_name = "Investitsii" -> "investments"
    [] product_name = "Obmen valyut" -> "currency_exchange"
    [] product_name = "Kredit nalichnymi" -> "cash_credit"
    [] product_name = "Zolotye slitki" -> "gold_bars"
    [] OTHER -> "generic"

\* client_data.get('client_info', {}).get('name', 'Клиент')
ClientName(cd) == IF cd.found THEN cd.client_info.name ELSE TxtKlient

\* float(client_info.get('avg_monthly_balance_KZT', 0))
AvgBalance(cd) == IF cd.found THEN cd.client_info.balance ELSE 0

\* ScenarioIntegration._prepare_context.  scenario_result is a dict, so
\* hasattr(scenario_result, 'travel_data') is False and the defaults are taken.
_prepare_context(client_name, product_type, cd, expected_benefit, m) ==
  LET base == [name |-> client_name, month |-> format_date(m)]
      avg_balance == AvgBalance(cd)
  IN  CASE product_type = "travel_card" ->
             [name |-> base.name, month |-> base.month, trip_count |-> Str(5),
              amount |-> format_amount(50000), cashback |-> format_amount(2000)]
        [] product_type = "premium_card" ->
             [name |-> base.name, month |-> base.month,
              balance |-> format_amount(avg_balance),
              cashback |-> format_amount((avg_balance * 2) \div 100)]
        [] product_type = "credit_card" ->
             [name |-> base.name, month |-> base.month, cat1 |-> TxtCat1,
              cat2 |-> TxtCat2, cat3 |-> TxtCat3, percent |-> Str(10),
              amount |-> format_amount(30000), cashback |-> format_amount(3000)]
        [] product_type \in {"multi_currency_deposit", "savings_deposit",
                             "accumulation_deposit"} ->
             [name |-> base.name, month |-> base.month,
              balance |-> format_amount(avg_balance), months |-> Str(3),
              min_balance |-> format_amount(avg_balance \div 2),
              period |-> TxtMesyats,
              profit |-> format_amount(expected_benefit),
              interest |-> format_amount(expected_benefit \div 12)]
        [] product_type = "investments" ->
             [name |-> base.name, month |-> base.month,
              amount |-> format_amount(10000),
              balance |-> format_amount(avg_balance)]
        [] product_type = "currency_exchange" ->
             [name |-> base.name, month |-> base.month, fx_curr |-> TxtUSD,
              fx_rate |-> Txt450, amount |-> format_amount(100000),
              savings |-> format_amount(5000)]
        [] product_type = "cash_credit" ->
             [name |-> base.name, month |-> base.month,
              limit |-> format_amount(2000000), terms |-> TxtTerms,
              amount |-> format_amount(500000), purchase_item |-> TxtTekhniku]
        [] OTHER -> base

\* ScenarioIntegration._prepare_basic_context
_prepare_basic_context(client_name, m) ==
  [name |-> client_name, month |-> format_date(m),
   amount |-> Grouped(50000) \o <<32>> \o TxtTenge,
   cashback |-> Grouped(2000) \o <<32>> \o TxtTenge,
   balance |-> Grouped(1000000) \o <<32>> \o TxtTenge,
   profit |-> Grouped(150000) \o <<32>> \o TxtTenge]

\* template.format(**context) raises KeyError
MissingKey(template, context) ==
  \E i \in 1..Len(template) :
    template[i].key # "" /\ template[i].key \notin DOMAIN context

\* template.format(**context) when every key is there
Format(template, context) ==
  LET piece(i) == IF template[i].key = "" THEN template[i].lit
                  ELSE context[template[i].key]
  IN  FlatRange(piece, 1, Len(template))

\* ScenarioIntegration._generate_personalized_message
_generate_personalized_message(client_name, product_type, cd, expected_benefit, m) ==
  LET template == get_template(product_type, TRUE)
      context == _prepare_context(client_name, product_type, cd, expected_benefit, m)
  IN  IF ~MissingKey(template, context) THEN Format(template, context)
      ELSE Format(get_template(product_type, FALSE),
                  _prepare_basic_context(client_name, m))

(***************************************************************************)
(* The tone-of-voice validator                                             *)
(***************************************************************************)
MaxMessageLen == 220

MinMessageLen == 50

TruncatedLen == 217

\* str.isspace: the blanks a name or a template can hold
IsWs(c) == c \in {9, 10, 11, 12, 13, 32, 160}

\* A-Z, А-Я, Ё
IsUpperChar(c) == (65 <= c /\ c <= 90) \/ (1040 <= c /\ c <= 1071) \/ c = 1025

\* a-z, а-я, ё
IsLowerChar(c) == (97 <= c /\ c <= 122) \/ (1072 <= c /\ c <= 1103) \/ c = 1105

ToLower(c) ==
  IF c = 1025 THEN 1105 ELSE IF IsUpperChar(c) THEN c + 32 ELSE c

ToUpper(c) ==
  IF c = 1105 THEN 1025 ELSE IF IsLowerChar(c) THEN c - 32 ELSE c

\* str.isupper: some cased character, and no lower-case one
IsUpper(s) ==
  /\ \E i \in 1..Len(s) : IsUpperChar(s[i])
  /\ \A i \in 1..Len(s) : ~IsLowerChar(s[i])

\* str.capitalize
Capitalize(s) ==
  [i \in 1..Len(s) |-> IF i = 1 THEN ToUpper(s[i]) ELSE ToLower(s[i])]

\* message.replace('!', '', count - 1): the first count - 1 marks go, the last stays
DropExclamations(s) ==
  LET marks == {i \in 1..Len(s) : s[i] = 33}
      last == CHOOSE i \in marks : \A j \in marks : j <= i
      piece(i) == IF s[i] = 33 /\ i # last THEN <<>> ELSE <<s[i]>>
  IN  IF Cardinality(marks) > 1 THEN FlatRange(piece, 1, Len(s)) ELSE s

\* ' '.join(message.split())
Collapse(s) ==
  LET nonws == {i \in 1..Len(s) : ~IsWs(s[i])}
      first == IF nonws = {} THEN 0 ELSE CHOOSE i \in nonws : \A j \in nonws : i <= j
      piece(i) == IF IsWs(s[i]) THEN <<>>
                  ELSE IF i > first /\ IsWs(s[i - 1]) THEN <<32, s[i]>>
                  ELSE <<s[i]>>
  IN  FlatRange(piece, 1, Len(s))

\* ScenarioIntegration._validate_message
_validate_message(message) ==
  LET m1 == IF Len(message) > MaxMessageLen
            THEN SubSeq(message, 1, TruncatedLen) \o TxtEllipsis
            ELSE IF Len(message) < MinMessageLen THEN message \o TxtLearnMore
            ELSE message
      m2 == DropExclamations(m1)
      m3 == IF IsUpper(m2) THEN Capitalize(m2) ELSE m2
  IN  Collapse(m3)

(***************************************************************************)
(* The notification of one scenario result                                 *)
(***************************************************************************)
\* ScenarioIntegration._calculate_priority
_calculate_priority(score, expected_benefit) ==
  IF score > 800000 /\ expected_benefit > 100000 THEN "high"
  ELSE IF score > 500000 /\ expected_benefit > 50000 THEN "medium"
  ELSE "low"

\* generate_notification_from_scenario and the notification.update that follows it
\* in analyze_client_with_scenarios, for scenario i; cd is the client data of the
\* evaluator's own get_client_data call
generate_notification_from_scenario(cd, scenario_result, i, m) ==
  LET client_name == ClientName(cd)
      product_type == _map_product_to_type(ProductNames[i])
      message == _generate_personalized_message(
                   client_name, product_type, cd, scenario_result.expected_benefit, m)
  IN  [message |-> _validate_message(message),
       product_type |-> product_type,
       product_name |-> ProductNames[i],
       product_key |-> ProductKeys[i],
       priority |-> _calculate_priority(scenario_result.score,
                                        scenario_result.expected_benefit),
       analysis_score |-> scenario_result.score,
       expected_benefit |-> scenario_result.expected_benefit]

(***************************************************************************)
(* Rendering and validating messages                                       *)
(***************************************************************************)
\* the number of blanks a stored name is padded with
MaxPad == 250

Blanks(n) == [i \in 1..n |-> 32]

\* 'Айгерим', 'АЙГЕРИМ!!', '', 'Айгерим' padded with blanks, a padded 'А!'
Names ==
  { NameAigerim,
    <<1040, 1049, 1043, 1045, 1056, 1048, 1052, 33, 33>>,
    <<>>,
    NameAigerim \o Blanks(MaxPad),
    <<1040, 33>> \o Blanks(MaxPad) }

\* 'Привет', 'Ок! Да! Нет!', 'СРОЧНО', and text with a no-break space and a tab
Texts ==
  { <<1055, 1088, 1080, 1074, 1077, 1090>>,
    <<1054, 1082, 33, 32, 1044, 1072, 33, 32, 1053, 1077, 1090, 33>>,
    <<1057, 1056, 1054, 1063, 1053, 1054>>,
    <<49, 48, 160, 48, 48, 48, 32, 8376, 9, 32, 1074, 32, 1084, 1072, 1077>> }

Months == {11, 12}

InitTOV ==
  /\ db = [client |-> NoClient, txs |-> <<>>, trs |-> <<>>]
  /\ RunIdle /\ ScoreIdle /\ RankIdle /\ TovIdle /\ ApiIdle

\* the message of generate_notification_from_scenario for a customer name, a
\* product, a balance, an expected benefit and the month of the clock
RenderMessage ==
  \E name \in Names, i \in 1..NumScenarios, b \in Balances,
     benefit \in {0, 120000}, m \in Months :
    LET cd == [found |-> TRUE,
               client_info |-> [found |-> TRUE, name |-> name,
                                status |-> "Standartnyi klient", balance |-> b],
               transactions |-> <<>>, transfers |-> <<>>, period_days |-> PeriodDays]
        message == _generate_personalized_message(
                     ClientName(cd), _map_product_to_type(ProductNames[i]),
                     cd, benefit, m)
    IN  /\ pc = "idle"
        /\ pc' = "rendered"
        /\ tovIn' = message
        /\ tovOut' = _validate_message(message)
        /\ UNCHANGED <<db, idx, elapsed, reads, month, notifications, raised, timedOut,
                       failedReads, blockedReads, finishedAt, firstRun, runsLeft,
                       tovOut2>>
        /\ UNCHANGED scoreVars /\ UNCHANGED apiVars /\ UNCHANGED rankVars

\* _validate_message on a text that is not a rendered template
ValidateText ==
  \E text \in Texts :
    /\ pc = "idle"
    /\ pc' = "validated"
    /\ tovIn' = text
    /\ tovOut' = _validate_message(text)
    /\ UNCHANGED <<db, idx, elapsed, reads, month, notifications, raised, timedOut,
                   failedReads, blockedReads, finishedAt, firstRun, runsLeft,
                   tovOut2>>
    /\ UNCHANGED scoreVars /\ UNCHANGED apiVars /\ UNCHANGED rankVars

\* _validate_message on its own output
ValidateAgain ==
  /\ pc \in {"rendered", "validated"}
  /\ pc' = "revalidated"
  /\ tovOut2' = _validate_message(tovOut)
  /\ UNCHANGED <<db, idx, elapsed, reads, month, notifications, raised, timedOut,
                 failedReads, blockedReads, finishedAt, firstRun, runsLeft,
                 tovIn, tovOut>>
  /\ UNCHANGED scoreVars /\ UNCHANGED apiVars /\ UNCHANGED rankVars

\* the travel_data a scenario result handed to the renderer may carry: none,
\* 12 trips for 45 000 with 2 250 cashback, 3 trips for 180 000 with 7 200
ResultFacts ==
  { NoStash,
    [set |-> TRUE, trip_count |-> 12, travel_amount |-> 45000,
     potential_cashback |-> 2250],
    [set |-> TRUE, trip_count |-> 3, travel_amount |-> 180000,
     potential_cashback |-> 7200] }

\* generate_notification_from_scenario(client_data, scenario_result, 'Карта для
\* путешествий') for a result that may carry travel_data.  The result is a
\* dict, so hasattr(scenario_result, 'travel_data') is False whatever its keys,
\* and _prepare_context never reads them
RenderFromResult ==
  \E name \in Names, b \in Balances, travel_data \in ResultFacts, m \in Months :
    LET cd == [found |-> TRUE,
               client_info |-> [found |-> TRUE, name |-> name,
                                status |-> "Standartnyi klient", balance |-> b],
               transactions |-> <<>>, transfers |-> <<>>, period_days |-> PeriodDays]
        scenario_result == [score |-> 850000, expected_benefit |-> 5000,
                            travel_data |-> travel_data]
        message == _generate_personalized_message(
                     ClientName(cd), _map_product_to_type(ProductNames[1]),
                     cd, scenario_result.expected_benefit, m)
    IN  /\ pc = "idle"
        /\ pc' = "rendered"
        /\ month' = m
        /\ scored' = [scenario |-> 1, result |-> scenario_result]
        /\ tovIn' = message
        /\ tovOut' = _validate_message(message)
        /\ UNCHANGED <<db, idx, elapsed, reads, notifications, raised, timedOut,
                       failedReads, blockedReads, finishedAt, firstRun, runsLeft,
                       tovOut2, prio>>
        /\ UNCHANGED apiVars /\ UNCHANGED rankVars

NextTOV == RenderMessage \/ ValidateText \/ ValidateAgain \/ RenderFromResult

SpecTOV == InitTOV /\ [][NextTOV]_vars

\* C6: the validator applied to its own output returns the same string,
\* validate(validate(x)) = validate(x), for every input x.
C6_Idempotent == pc = "revalidated" => tovOut2 = tovOut

\* C7: every message the renderer produces has between 50 and 220 characters.
C7_Length ==
  pc = "rendered" => (MinMessageLen <= Len(tovOut) /\ Len(tovOut) <= MaxMessageLen)

(***************************************************************************)
(* The ranking of analyze_client_with_scenarios                            *)
(***************************************************************************)
\* the priority strings as Python compares them, character by character
PriorityChars(p) ==
  CASE p = "high" -> <<104, 105, 103, 104>>
    [] p = "medium" -> <<109, 101, 100, 105, 117, 109>>
    [] p = "low" -> <<108, 111, 119>>

\* a < b for two strings
StrLess(a, b) ==
  \E k \in 1..(Min(Len(a), Len(b)) + 1) :
    /\ \A j \in 1..(k - 1) : a[j] = b[j]
    /\ IF k > Len(b) THEN FALSE
       ELSE IF k > Len(a) THEN TRUE
       ELSE a[k] < b[k]

\* key(a) < key(b) for key = (x.get('priority', 'low'), x.get('analysis_score', 0))
KeyLess(a, b) ==
  \/ StrLess(PriorityChars(a.priority), PriorityChars(b.priority))
  \/ a.priority = b.priority /\ a.analysis_score < b.analysis_score

\* x goes behind every element whose key is not smaller than its own
InsertDesc(sorted, x) ==
  LET k == Cardinality({i \in 1..Len(sorted) : ~KeyLess(sorted[i], x)})
  IN  SubSeq(sorted, 1, k) \o <<x>> \o SubSeq(sorted, k + 1, Len(sorted))

\* notifications.sort(key=..., reverse=True): descending by key, and stable, so
\* that elements with equal keys keep the order they were appended in
RECURSIVE SortNotifications(_)
SortNotifications(s) ==
  IF s = <<>> THEN <<>>
  ELSE InsertDesc(SortNotifications(SubSeq(s, 1, Len(s) - 1)), s[Len(s)])

(***************************************************************************)
(* analyze_client_with_scenarios                                           *)
(***************************************************************************)
\* `if time.time() - start_time > 30`
Timeout == 30

\* how long a blocked store read takes, and the latest a read may start blocking
BlockDelay == 40

MaxElapsed == 40

\* bounds on what goes wrong in one run
MaxFaults == 2

MaxFailedReads == 1

MaxIncidents == 2

\* which one of the three reads of a get_client_data call fails, if any
FailChoices ==
  { NoFails,
    [client |-> TRUE, txs |-> FALSE, trs |-> FALSE],
    [client |-> FALSE, txs |-> TRUE, trs |-> FALSE],
    [client |-> FALSE, txs |-> FALSE, trs |-> TRUE] }

\* the reads of call number `call` of iteration i that failed under `fails`
FailedIn(i, call, fails) ==
  {[scenario |-> i, call |-> call, read |-> r] :
     r \in {k \in {"client", "txs", "trs"} : fails[k]}}

NoRun == [ran |-> FALSE, out |-> <<>>, month |-> 1, timedOut |-> FALSE]

\* the store reads one get_client_data call issues: the customer fetch, and the
\* transactions and transfers reads when the customer came back
ReadsIssued(store, fails) ==
  IF get_client_by_code(store, fails.client).found THEN 3 ELSE 1

\* the reads issued by an iteration that raises: it raises before its first
\* fetch, in the scenario after its fetch, or in the renderer after both
RaiseReads == {0, 3, 6}

\* which read of an iteration blocks, if any
BlockChoices == {"none", "client", "txs", "trs"}

Incidents(r, f, b) == Cardinality(r) + Cardinality(f) + Cardinality(b)

\* one iteration of the loop that reaches notifications.append: the deadline
\* check, scenario.analyze_client (its own get_client_data inside), the second
\* get_client_data, generate_notification_from_scenario, update and append
IterateWith(fails, blocking) ==
  \E f1 \in fails, f2 \in fails, blocked \in blocking :
    LET scenario_result == analyze_client(idx, get_client_data(db, f1), NoStash)
        client_data == get_client_data(db, f2)
        notification ==
          generate_notification_from_scenario(client_data, scenario_result, idx, month)
        failed == failedReads \cup FailedIn(idx, 1, f1) \cup FailedIn(idx, 2, f2)
        blocks == IF blocked = "none" THEN blockedReads
                  ELSE blockedReads \cup {[scenario |-> idx, read |-> blocked]}
        now == IF blocked = "none" THEN elapsed ELSE elapsed + BlockDelay
    IN  /\ pc = "loop" /\ idx <= NumScenarios
        /\ ~(elapsed > Timeout)
        /\ Cardinality(failed) <= MaxFailedReads
        /\ now <= MaxElapsed
        /\ Incidents(raised, failed, blocks) <= MaxIncidents
        /\ notifications' = Append(notifications, notification)
        /\ failedReads' = failed
        /\ blockedReads' = blocks
        /\ elapsed' = now
        /\ finishedAt' = finishedAt \cup {[scenario |-> idx, at |-> now]}
        /\ reads' = reads + ReadsIssued(db, f1) + ReadsIssued(db, f2)
        /\ idx' = idx + 1
        /\ UNCHANGED <<db, pc, month, raised, timedOut, firstRun, runsLeft>>
        /\ UNCHANGED scoreVars /\ UNCHANGED apiVars /\ UNCHANGED rankVars /\ UNCHANGED tovVars

Iterate == IterateWith(FailChoices, BlockChoices)

\* an except branch that would keep a result for the scenario that raised
IterateRaiseKeepsResult ==
  /\ pc = "loop" /\ idx <= NumScenarios
  /\ ~(elapsed > Timeout)
  /\ Cardinality(raised) < MaxFaults
  /\ Incidents(raised, failedReads, blockedReads) < MaxIncidents
  /\ raised' = raised \cup {idx}
  /\ notifications' = Append(notifications,
        generate_notification_from_scenario(get_client_data(db, NoFails),
                                            NotFoundResult, idx, month))
  /\ idx' = idx + 1
  /\ UNCHANGED <<db, pc, month, elapsed, reads, timedOut, failedReads,
                 blockedReads, finishedAt, firstRun, runsLeft>>
  /\ UNCHANGED scoreVars /\ UNCHANGED apiVars /\ UNCHANGED rankVars /\ UNCHANGED tovVars

\* one iteration in which the scenario or the renderer raises: the except
\* branch logs it and continues with the next scenario
IterateRaise ==
  /\ pc = "loop" /\ idx <= NumScenarios
  /\ ~(elapsed > Timeout)
  /\ Cardinality(raised) < MaxFaults
  /\ Incidents(raised, failedReads, blockedReads) < MaxIncidents
  /\ raised' = raised \cup {idx}
  /\ idx' = idx + 1
  /\ \E r \in RaiseReads : reads' = reads + r
  /\ UNCHANGED <<db, pc, month, elapsed, notifications, timedOut, failedReads,
                 blockedReads, finishedAt, firstRun, runsLeft>>
  /\ UNCHANGED scoreVars /\ UNCHANGED apiVars /\ UNCHANGED rankVars /\ UNCHANGED tovVars

\* the deadline check breaks out of the loop; what was appended is sorted and returned
DeadlineBreak ==
  /\ pc = "loop" /\ idx <= NumScenarios
  /\ elapsed > Timeout
  /\ timedOut' = TRUE
  /\ notifications' = SortNotifications(notifications)
  /\ pc' = "done"
  /\ UNCHANGED <<db, idx, month, elapsed, reads, raised, failedReads, blockedReads,
                 finishedAt, firstRun, runsLeft>>
  /\ UNCHANGED scoreVars /\ UNCHANGED apiVars /\ UNCHANGED rankVars /\ UNCHANGED tovVars

\* the loop has gone through the ten scenarios; the list is sorted and returned
Finish ==
  /\ pc = "loop" /\ idx > NumScenarios
  /\ notifications' = SortNotifications(notifications)
  /\ pc' = "done"
  /\ UNCHANGED <<db, idx, month, elapsed, reads, raised, timedOut, failedReads,
                 blockedReads, finishedAt, firstRun, runsLeft>>
  /\ UNCHANGED scoreVars /\ UNCHANGED apiVars /\ UNCHANGED rankVars /\ UNCHANGED tovVars

\* the customers the evaluator is run on
EvalSnapshots ==
  { [client |-> Client("Premialnyi klient", 8000000),
     txs |-> <<Tx(60000, "Kafe i restorany", 10, 5), Tx(40000, "Kino", 9, 20),
               Tx(120000, "Taksi", 9, 2)>>,
     trs |-> <<Tr("fx_buy", "out", 150000, "USD", 10),
               Tr("deposit_topup_out", "out", 100000, "KZT", 9)>>],
    [client |-> Client("Student", 150000),
     txs |-> <<Tx(120000, "Taksi", 10, 3)>>,
     trs |-> <<Tr("salary_in", "in", 320000, "KZT", 10)>>] }

RunStart ==
  /\ pc = "loop" /\ idx = 1 /\ elapsed = 0
  /\ notifications = <<>> /\ raised = {} /\ timedOut = FALSE
  /\ failedReads = {} /\ blockedReads = {} /\ finishedAt = {} /\ reads = 0

Init ==
  /\ db \in EvalSnapshots /\ month = 11
  /\ RunStart /\ firstRun = NoRun /\ runsLeft = 0
  /\ ScoreIdle /\ RankIdle /\ TovIdle /\ ApiIdle

Next == Iterate \/ IterateRaise \/ DeadlineBreak \/ Finish

Spec == Init /\ [][Next]_vars

(***************************************************************************)
(* Properties of one run of the evaluator                                  *)
(***************************************************************************)
\* the order of the priority buckets: high above medium above low
priorityRank(p) == CASE p = "high" -> 2 [] p = "medium" -> 1 [] p = "low" -> 0

\* C1: in the returned list, a recommendation with a higher priority bucket, or
\* with the same bucket and a strictly higher score, stands before the other.
C1_RankerMonotone ==
  pc = "done" =>
    \A i, j \in 1..Len(notifications) :
      LET a == notifications[i]
          b == notifications[j]
      IN  (\/ priorityRank(a.priority) > priorityRank(b.priority)
           \/ (a.priority = b.priority /\ a.analysis_score > b.analysis_score))
            => i < j

\* the product keys of the scenarios that raised
RaisedKeys == {ProductKeys[i] : i \in raised}

\* the two halves of graceful degradation for a finished run
Degraded ==
  /\ Len(notifications) = NumScenarios - Cardinality(raised)
  /\ \A i \in 1..Len(notifications) : notifications[i].product_key \notin RaisedKeys

\* C2: in a run that does not reach the deadline, if k scenarios raise the
\* evaluator returns exactly 10 - k results, none from a scenario that raised.
C2_Degradation == (pc = "done" /\ ~timedOut) => Degraded

\* C2 (witness): a run finished without reaching the deadline in which two
\* scenarios raised and the other eight are in the list.
C2_Witness ==
  /\ pc = "done" /\ ~timedOut
  /\ Cardinality(raised) = 2 /\ Len(notifications) = 8

\* C2 as stated, for every run in which some scenario raised: the result has
\* exactly 10 - k entries, none from a scenario that raised.
C2_AsStated == (pc = "done" /\ raised # {}) => Degraded

\* C3: every result in the list comes from a scenario that finished before the
\* deadline expired; what finished later is dropped.
C3_LateDropped ==
  \A i \in 1..Len(notifications) :
    \A f \in finishedAt :
      ProductKeys[f.scenario] = notifications[i].product_key => f.at <= Timeout

\* C4: a run does not wait for a store read past the deadline, and a store that
\* blocks on the transfers read beyond the deadline yields an empty list.
C4_NoWaitPastDeadline ==
  (\E b \in blockedReads : b.read = "trs" /\ b.scenario = 1) =>
    (elapsed <= Timeout /\ notifications = <<>>)

\* C5: when a store read failed during the run, no recommendation is returned
\* for the customer.
C5_StoreFailureTerminal ==
  (pc = "done" /\ failedReads # {}) => notifications = <<>>

(***************************************************************************)
(* The ranker on results collected in an arbitrary order                   *)
(***************************************************************************)
\* how many results are collected before ranking
MaxCollected == 3

\* the notification the pipeline builds for scenario i on a healthy store
NotificationOf(store, i, m) ==
  generate_notification_from_scenario(
    get_client_data(store, NoFails),
    analyze_client(i, get_client_data(store, NoFails), NoStash), i, m)

InitRank ==
  /\ db \in EvalSnapshots
  /\ RunIdle /\ ScoreIdle /\ RankIdle /\ TovIdle /\ ApiIdle

\* scenario i completes next; the list collected so far is ranked
Collect(i) ==
  /\ Len(rankIn) < MaxCollected
  /\ \A k \in 1..Len(rankIn) : rankIn[k].product_key # ProductKeys[i]
  /\ rankIn' = Append(rankIn, NotificationOf(db, i, month))
  /\ rankOut' = SortNotifications(rankIn')
  /\ UNCHANGED <<db, month, firstRun, runsLeft>>
  /\ UNCHANGED runVars /\ UNCHANGED scoreVars /\ UNCHANGED apiVars /\ UNCHANGED tovVars

NextRank == \E i \in 1..NumScenarios : Collect(i)

SpecRank == InitRank /\ [][NextRank]_vars

\* the scenarios whose results were collected
CollectedScenarios ==
  {i \in 1..NumScenarios : \E k \in 1..Len(rankIn) : rankIn[k].product_key = ProductKeys[i]}

\* the members of a set of scenario numbers, ascending
RECURSIVE Ascending(_)
Ascending(S) ==
  IF S = {} THEN <<>>
  ELSE LET lo == CHOOSE x \in S : \A y \in S : x <= y
       IN  <<lo>> \o Ascending(S \ {lo})

\* the same results collected in the order the scenarios are registered
InRegisteredOrder ==
  LET order == Ascending(CollectedScenarios)
  IN  [k \in 1..Len(order) |-> NotificationOf(db, order[k], month)]

NextMonth(m) == IF m = 12 THEN 1 ELSE m + 1

InitTwice ==
  /\ db \in EvalSnapshots /\ month = 11
  /\ RunStart /\ firstRun = NoRun /\ runsLeft = 1
  /\ ScoreIdle /\ RankIdle /\ TovIdle /\ ApiIdle

\* a second request that would leave the list of the first one in place
RestartKeepsList ==
  /\ pc = "done" /\ runsLeft > 0
  /\ firstRun' = [ran |-> TRUE, out |-> notifications, month |-> month,
                  timedOut |-> timedOut]
  /\ runsLeft' = runsLeft - 1
  /\ month' \in {month, NextMonth(month)}
  /\ pc' = "loop" /\ idx' = 1 /\ elapsed' = 0 /\ reads' = 0
  /\ raised' = {} /\ timedOut' = FALSE
  /\ failedReads' = {} /\ blockedReads' = {} /\ finishedAt' = {}
  /\ UNCHANGED <<db, notifications>>
  /\ UNCHANGED scoreVars /\ UNCHANGED apiVars /\ UNCHANGED rankVars /\ UNCHANGED tovVars

\* the second request for the same customer: analyze_client_with_scenarios is
\* entered again, with a new list, new scenario objects and a new start time,
\* in the same month or after the month has changed
Restart ==
  /\ pc = "done" /\ runsLeft > 0
  /\ firstRun' = [ran |-> TRUE, out |-> notifications, month |-> month,
                  timedOut |-> timedOut]
  /\ runsLeft' = runsLeft - 1
  /\ month' \in {month, NextMonth(month)}
  /\ pc' = "loop" /\ idx' = 1 /\ elapsed' = 0 /\ reads' = 0
  /\ notifications' = <<>> /\ raised' = {} /\ timedOut' = FALSE
  /\ failedReads' = {} /\ blockedReads' = {} /\ finishedAt' = {}
  /\ UNCHANGED db
  /\ UNCHANGED scoreVars /\ UNCHANGED apiVars /\ UNCHANGED rankVars /\ UNCHANGED tovVars

\* an iteration on a store whose reads all succeed, though one may be slow
IterateHealthy == IterateWith({NoFails}, BlockChoices)

NextTwice == IterateHealthy \/ DeadlineBreak \/ Finish \/ Restart

SpecTwice == InitTwice /\ [][NextTwice]_vars

\* both runs are over
BothDone == firstRun.ran /\ pc = "done"

ScenarioOf(key) == CHOOSE i \in 1..NumScenarios : ProductKeys[i] = key

\* the place of each scenario's product name among the ten names in
\* alphabetical order: Depozit Multivalyutnyi, Depozit Nakopitelnyi, Depozit
\* Sberegatelnyi, Zolotye slitki, Investitsii, Karta dlya puteshestvii, Kredit
\* nalichnymi, Kreditnaya karta, Obmen valyut, Premialnaya karta (the order of
\* the names as the scenarios spell them, in Cyrillic)
NameOrder == <<6, 10, 8, 9, 1, 3, 2, 5, 4, 7>>

\* a stands before b by the tie-break: higher benefit, then product name
TieBreakBefore(a, b) ==
  \/ a.expected_benefit > b.expected_benefit
  \/ /\ a.expected_benefit = b.expected_benefit
     /\ NameOrder[ScenarioOf(a.product_key)] < NameOrder[ScenarioOf(b.product_key)]

\* C11: two results of the returned list with the same priority and the same
\* score stand in the order of their expected benefit, higher first, and with
\* equal benefit in the order of their product names.
C11_TieBreak ==
  pc = "done" =>
    \A i, j \in 1..Len(notifications) :
      (/\ i < j
       /\ notifications[i].priority = notifications[j].priority
       /\ notifications[i].analysis_score = notifications[j].analysis_score)
        => TieBreakBefore(notifications[i], notifications[j])

(***************************************************************************)
(* The priority of a notification                                          *)
(***************************************************************************)
\* NotificationAI._calculate_priority(recommendation_data): the score is looked
\* up under recommendation_data['match_score'] and is 0 when that key is absent;
\* the expected benefit is not looked at
AI_calculate_priority(recommendation_data) ==
  LET score == IF "match_score" \in DOMAIN recommendation_data
               THEN recommendation_data.match_score.score
               ELSE 0
  IN  IF score > 800000 THEN "high"
      ELSE IF score > 500000 THEN "medium"
      ELSE "low"

\* the scores and expected benefits a priority is computed for
PriorityScores == {0, 500000, 500001, 650000, 800000, 800001, 900000, 1000000}

PriorityBenefits == {-135, 0, 50000, 50001, 100000, 100001, 120000, 450000}

InitPriority ==
  /\ db = [client |-> NoClient, txs |-> <<>>, trs |-> <<>>]
  /\ RunIdle /\ ScoreIdle /\ RankIdle /\ TovIdle /\ ApiIdle

\* generate_notification_from_scenario computes the priority of a scenario result
Prioritize ==
  \E score \in PriorityScores, benefit \in PriorityBenefits :
    /\ prio = NoPriority
    /\ prio' = [by |-> "ScenarioIntegration", score |-> score,
                expected_benefit |-> benefit,
                priority |-> _calculate_priority(score, benefit)]
    /\ UNCHANGED <<db, month, firstRun, runsLeft, scored>>
    /\ UNCHANGED runVars /\ UNCHANGED rankVars /\ UNCHANGED tovVars
    /\ UNCHANGED apiVars

\* NotificationGenerator.generate_recommendation_notifications hands the
\* scenario result (rec['match_score']) to NotificationAI.generate_notification
\* as its recommendation_data, which computes the priority from it
PrioritizeAI ==
  \E score \in PriorityScores, benefit \in PriorityBenefits :
    LET match_score == [score |-> score, expected_benefit |-> benefit]
    IN  /\ prio = NoPriority
        /\ prio' = [by |-> "NotificationAI", score |-> score,
                    expected_benefit |-> benefit,
                    priority |-> AI_calculate_priority(match_score)]
        /\ UNCHANGED <<db, month, firstRun, runsLeft, scored>>
        /\ UNCHANGED runVars /\ UNCHANGED rankVars /\ UNCHANGED tovVars
        /\ UNCHANGED apiVars

NextPriority == Prioritize \/ PrioritizeAI

SpecPriority == InitPriority /\ [][NextPriority]_vars

\* the priority rule: high for score > 0.8 and benefit > 100 000, otherwise
\* medium for score > 0.5 and benefit > 50 000, otherwise low
PriorityRule(score, benefit) ==
  IF score * 10 > 8 * SCALE /\ benefit > 100000 THEN "high"
  ELSE IF score * 2 > SCALE /\ benefit > 50000 THEN "medium"
  ELSE "low"

RECURSIVE AnalyzeFirst(_, _, _)
\* the notifications of the first k registered scenarios, in registry order
AnalyzeFirst(store, m, k) ==
  IF k = 0 THEN <<>>
  ELSE Append(AnalyzeFirst(store, m, k - 1), NotificationOf(store, k, m))

RunPipeline(store, m) == SortNotifications(AnalyzeFirst(store, m, NumScenarios))

\* required_fields of AnalyzeClient.post, in the order they are tested
RequiredFields == <<"client_code", "name", "status", "avg_monthly_balance_KZT">>

\* the keys a request body may carry: the required ones and an optional one
BodyFields == {RequiredFields[k] : k \in 1..Len(RequiredFields)} \cup {"city"}

\* the first required field the body lacks, "" when it has them all
FirstMissing(body) ==
  IF \A k \in 1..Len(RequiredFields) : RequiredFields[k] \in body THEN ""
  ELSE RequiredFields[CHOOSE k \in 1..Len(RequiredFields) :
                        /\ RequiredFields[k] \notin body
                        /\ \A j \in 1..(k - 1) : RequiredFields[j] \in body]

\* the keys AnalyzeClientAll.post subscripts, in the order it does
SubscriptedFields == RequiredFields

FirstKeyError(body) ==
  IF \A k \in 1..Len(SubscriptedFields) : SubscriptedFields[k] \in body THEN ""
  ELSE SubscriptedFields[CHOOSE k \in 1..Len(SubscriptedFields) :
                           /\ SubscriptedFields[k] \notin body
                           /\ \A j \in 1..(k - 1) : SubscriptedFields[j] \in body]

Request(handler, body) == [NoApi EXCEPT !.handler = handler, !.body = body,
                                        !.at = "received"]

\* the response of a handler: status, error text (the field it names, or what
\* it says), product of the best notification, number of recommendations
Respond(a, status, error, product, count) ==
  [a EXCEPT !.at = "responded", !.status = status, !.error = error,
            !.product = product, !.count = count]

Unchanged_outside_api ==
  /\ UNCHANGED <<db, month, firstRun, runsLeft>>
  /\ UNCHANGED runVars /\ UNCHANGED scoreVars /\ UNCHANGED rankVars
  /\ UNCHANGED tovVars /\ UNCHANGED analysis

\* AnalyzeClient.post: POST /api/v1/analyze; notifications_ is what
\* analyze_client_with_scenarios returns for the customer of the body
AnalyzeClient_post(notifications_) ==
  /\ api.handler = "AnalyzeClient" /\ api.at = "received"
  /\ api' =
       IF api.body = {} THEN Respond(api, 400, "no data", "", 0)
       ELSE IF FirstMissing(api.body) # ""
         THEN Respond(api, 400, FirstMissing(api.body), "", 0)
       ELSE IF notifications_ = <<>>
         THEN Respond(api, 200, "", "Net podkhodyashchikh produktov", 0)
       ELSE Respond(api, 200, "", notifications_[1].product_name, 1)
  /\ Unchanged_outside_api

\* AnalyzeClientAll.post: POST /api/v1/analyze/all; a missing key raises
\* KeyError, which the except branch answers with 500 and str(e)
AnalyzeClientAll_post(notifications_) ==
  /\ api.handler = "AnalyzeClientAll" /\ api.at = "received"
  /\ api' =
       IF api.body = {} THEN Respond(api, 400, "no data", "", 0)
       ELSE IF FirstKeyError(api.body) # ""
         THEN Respond(api, 500, FirstKeyError(api.body), "", 0)
       ELSE Respond(api, 200, "", "", Min(4, Len(notifications_)))
  /\ Unchanged_outside_api

\* TestRandomClient.get: GET /api/v1/test/random.  The connection may fail to
\* open, the table may be empty, and an exception may reach the except branch,
\* which answers 500 and does not close the connection
TestRandomClient_get(notifications_) ==
  \E connects \in BOOLEAN, any_client \in BOOLEAN, raises \in BOOLEAN :
    /\ api.handler = "TestRandomClient" /\ api.at = "received"
    /\ api' =
         IF ~connects THEN Respond(api, 500, "no connection", "", 0)
         ELSE IF ~any_client
           THEN Respond([api EXCEPT !.conn = "closed"], 400, "no clients", "", 0)
         ELSE IF raises
           THEN Respond([api EXCEPT !.conn = "open"], 500, "exception", "", 0)
         ELSE Respond([api EXCEPT !.conn = "closed"], 200, "", "",
                      Min(3, Len(notifications_)))
    /\ Unchanged_outside_api

\* how many customers the export lists at most in the model (the query has LIMIT 50)
MaxExportClients == 3

\* the customer codes the export query returns
ClientLists == {[k \in 1..n |-> k] : n \in 0..MaxExportClients}

\* ExportCSV.get up to its loop: connect, list the customers, write the header
ExportCSV_begin ==
  \E connects \in BOOLEAN, listed \in BOOLEAN, clients \in ClientLists :
    /\ api.handler = "ExportCSV" /\ api.at = "received"
    /\ api' =
         IF ~connects THEN Respond(api, 500, "no connection", "", 0)
         ELSE IF ~listed
           THEN Respond([api EXCEPT !.conn = "closed"], 500, "no client list", "", 0)
         ELSE [api EXCEPT !.conn = "open", !.at = "loop", !.clients = clients]
    /\ Unchanged_outside_api

\* one iteration of the export loop.  `from .analyzer import analyze_client_fast`
\* raises ImportError, analyzer.py defining no such name; the except branch
\* writes the error row and continues
ExportCSV_client ==
  /\ api.handler = "ExportCSV" /\ api.at = "loop"
  /\ Len(api.rows) < Len(api.clients)
  /\ LET client_code == api.clients[Len(api.rows) + 1]
     IN  api' = [api EXCEPT
                   !.fast = Append(@, [client_code |-> client_code,
                                       returned |-> FALSE, length |-> 0]),
                   !.rows = Append(@, [client_code |-> client_code,
                                       product |-> "Oshibka analiza"])]
  /\ Unchanged_outside_api

\* the loop is over: close the connection and return the CSV
ExportCSV_end ==
  /\ api.handler = "ExportCSV" /\ api.at = "loop"
  /\ Len(api.rows) = Len(api.clients)
  /\ api' = Respond([api EXCEPT !.conn = "closed"], 200, "", "", Len(api.rows))
  /\ Unchanged_outside_api

\* an exception outside the per-customer try (a print, the csv writer, the
\* except branch itself) reaches the outer except branch, which answers 500
\* and does not close the connection
ExportCSV_abort ==
  /\ api.handler = "ExportCSV" /\ api.at = "loop"
  /\ api' = Respond(api, 500, "exception", "", 0)
  /\ Unchanged_outside_api

(***************************************************************************)
(* app.py: POST /analyze                                                   *)
(***************************************************************************)
\* the keys of a request body that analyze and analyze_client_data look at
AppBodyFields ==
  {"client_code", "name", "avg_monthly_balance_KZT", "transactions", "transfers"}

\* the first of required_fields = ['client_code', 'name'] the body lacks
AppFirstMissing(body) ==
  IF "client_code" \notin body THEN "client_code"
  ELSE IF "name" \notin body THEN "name"
  ELSE ""

\* category_spending.head(3): the category is among the three with the largest
\* sums
InTop3(rows, category) ==
  LET cats == {rows[i].category : i \in 1..Len(rows)}
      sumOf(c) == LET in(t) == t.category = c IN SumAmount(rows, in)
  IN  /\ category \in cats
      /\ Cardinality({c \in cats : sumOf(c) > sumOf(category)}) < 3

\* analyze_client_data: the products that qualify, in the order they are put
\* into product_benefits, each with its benefit in thousandths of a tenge
AppProductBenefits(avg_balance, rows) ==
  LET isTaxi(t) == t.category = "Taksi"
      isFx(t) == t.category = "Obmen valyut"
      taxi_spending == IF InTop3(rows, "Taksi") THEN SumAmount(rows, isTaxi) ELSE 0
      fx_spending == IF InTop3(rows, "Obmen valyut") THEN SumAmount(rows, isFx) ELSE 0
      travel == IF taxi_spending > 0
                THEN <<[product |-> "Karta dlya puteshestvii",
                        benefit |-> taxi_spending * 40]>> ELSE <<>>
      premium == IF avg_balance >= 6000000
                 THEN <<[product |-> "Premialnaya karta",
                         benefit |-> SumAmount(rows, AnyRow) * 50]>> ELSE <<>>
      deposit == IF avg_balance >= 1000000
                 THEN <<[product |-> "Depozit", benefit |-> avg_balance * 120]>>
                 ELSE <<>>
      credit == IF avg_balance > 0
                THEN <<[product |-> "Kreditnaya karta", benefit |-> 0]>> ELSE <<>>
      fx == IF fx_spending > 0
            THEN <<[product |-> "Obmen valyut", benefit |-> fx_spending * 5]>>
            ELSE <<>>
  IN  travel \o premium \o deposit \o credit \o fx

\* analyze_client_data: the best product, max() giving the first of the
\* largest.  With transactions, monthly_spending is a pandas Series, whose truth
\* value the premium card branch asks for: ValueError.  The travel card
\* template asks for {count} and {amount}, which its data does not hold, so
\* formatting it raises KeyError
analyze_client_data(body, store) ==
  LET avg_balance == IF "avg_monthly_balance_KZT" \in body
                     THEN store.client.balance ELSE 0
      rows == IF "transactions" \in body THEN store.txs ELSE <<>>
      product_benefits == AppProductBenefits(avg_balance, rows)
      best == CHOOSE k \in 1..Len(product_benefits) :
                /\ \A j \in 1..Len(product_benefits) :
                     product_benefits[j].benefit <= product_benefits[k].benefit
                /\ \A j \in 1..(k - 1) :
                     product_benefits[j].benefit < product_benefits[k].benefit
  IN  IF avg_balance >= 6000000 /\ rows # <<>>
      THEN [raises |-> TRUE, product |-> ""]
      ELSE IF product_benefits = <<>>
      THEN [raises |-> FALSE, product |-> "Kreditnaya karta"]
      ELSE IF product_benefits[best].product = "Karta dlya puteshestvii"
      THEN [raises |-> TRUE, product |-> ""]
      ELSE [raises |-> FALSE, product |-> product_benefits[best].product]

\* the tables the handler's session has added rows to when it commits: the
\* customer unless already stored, the body's transactions and transfers, and
\* the analysis result
AppSaved(body, store, client_stored) ==
  (IF client_stored THEN {} ELSE {"Clients"})
  \cup (IF "transactions" \in body /\ store.txs # <<>> THEN {"Transactions"} ELSE {})
  \cup (IF "transfers" \in body /\ store.trs # <<>> THEN {"Transfers"} ELSE {})
  \cup {"ProductBenefits"}

\* analyze of app.py: POST /analyze.  The commit may fail (the session is
\* rolled back and the answer is still the result)
App_analyze ==
  \E client_stored \in BOOLEAN, committed \in BOOLEAN :
    /\ api.handler = "analyze" /\ api.at = "received"
    /\ LET result == analyze_client_data(api.body, db)
       IN  api' =
             IF AppFirstMissing(api.body) # ""
             THEN Respond(api, 400, AppFirstMissing(api.body), "", 0)
             ELSE IF result.raises THEN Respond(api, 500, "exception", "", 0)
             ELSE Respond([api EXCEPT !.writes =
                             IF committed THEN AppSaved(api.body, db, client_stored)
                             ELSE {}],
                          200, "", result.product, 1)
    /\ Unchanged_outside_api

InitApi ==
  /\ db \in EvalSnapshots
  /\ RunIdle /\ ScoreIdle /\ RankIdle /\ TovIdle /\ analysis = NoAnalysis
  /\ api \in {Request(h, body) : h \in {"AnalyzeClient", "AnalyzeClientAll"},
                                 body \in SUBSET BodyFields}
             \cup {Request("TestRandomClient", {}), Request("ExportCSV", {})}
             \cup {Request("analyze", body) : body \in SUBSET AppBodyFields}

\* the three handlers that call analyze_client_with_scenarios(client_code, 90,
\* db_manager), with what the call returns
Analyze ==
  \E notifications_ \in {RunPipeline(db, month)} :
    \/ AnalyzeClient_post(notifications_)
    \/ AnalyzeClientAll_post(notifications_)
    \/ TestRandomClient_get(notifications_)

NextApi ==
  \/ Analyze
  \/ ExportCSV_begin \/ ExportCSV_client \/ ExportCSV_end \/ ExportCSV_abort
  \/ App_analyze

SpecApi == InitApi /\ [][NextApi]_vars

\* the scenarios the fast variant is said to run: travel card, premium card,
\* credit card, investments, cash credit
FastScenarios == {1, 2, 3, 8, 10}

\* C13: when no scenario raises and no deadline cuts the run, the pipeline
\* returns exactly one result per scenario it runs: ten for the full pipeline
\* and five for the fast variant the export calls for each customer
C13_OneResultPerScenario ==
  /\ Len(RunPipeline(db, month)) = NumScenarios
  /\ \A k \in 1..Len(api.fast) :
       /\ api.fast[k].returned
       /\ api.fast[k].length = Cardinality(FastScenarios)

\* C15: the store connection a request or a batch export has opened is
\* closed by the time the handler has answered, whichever way it exits
C15_ConnectionClosed == api.at = "responded" => api.conn # "open"

\* C14: one run of the pipeline issues at most three reads to the store for
\* the customer in total: the profile, the transactions, the transfers
C14_ThreeReads == reads <= 3

RECURSIVE FastFirst(_, _, _)
\* the notifications of the fast scenarios among the first k registered ones
FastFirst(store, m, k) ==
  IF k = 0 THEN <<>>
  ELSE IF k \in FastScenarios
    THEN Append(FastFirst(store, m, k - 1), NotificationOf(store, k, m))
    ELSE FastFirst(store, m, k - 1)

\* the product an export row carries for a customer whose analysis succeeds
ExpectedProduct(store, m) ==
  LET ranked == SortNotifications(FastFirst(store, m, NumScenarios))
  IN  IF ranked = <<>> THEN "Net podkhodyashchikh produktov"
      ELSE ranked[1].product_name

\* C16: a finished batch export holds exactly one data row per listed
\* customer, in the order listed; the row of a customer whose analysis can
\* succeed (healthy store, no scenario raising) carries the top-1 product, or
\* the no-products text when nothing is recommended, and not the error text
C16_OneRowPerCustomer ==
  (api.handler = "ExportCSV" /\ api.at = "responded" /\ api.status = 200) =>
    /\ Len(api.rows) = Len(api.clients)
    /\ \A k \in 1..Len(api.rows) :
         /\ api.rows[k].client_code = api.clients[k]
         /\ api.rows[k].product = ExpectedProduct(db, month)

\* C17: a POST to /api/v1/analyze or /api/v1/analyze/all whose body lacks a
\* required field is answered with status 400 and an error naming that field
C17_MissingField400 ==
  (/\ api.handler \in {"AnalyzeClient", "AnalyzeClientAll"}
   /\ api.at = "responded"
   /\ FirstMissing(api.body) # "") =>
    /\ api.status = 400
    /\ api.error = FirstMissing(api.body)

\* the reasons of the result a scenario returns when get_client_data gives
\* nothing back: format_analysis_result(0, ['Клиент не найден'], 0), the
\* same list in all ten scenarios
NotFoundReasons(i) == <<"Klient ne naiden">>

\* C18: a scenario asked about a customer the store has no data for does not
\* fail; it returns score 0, expected benefit 0 and the single reason
\* "нет данных"
C18_NoData ==
  (scored.scenario # 0 /\ ~db.client.found) =>
    /\ scored.result.score = 0
    /\ scored.result.expected_benefit = 0
    /\ NotFoundReasons(scored.scenario) = <<"net dannykh">>

\* the call-to-action verbs, in lower case: открыть, настроить, посмотреть,
\* оформить, узнать, попробовать, проверить, подключить, начать
CtaVerbs ==
  {
    <<1086, 1090, 1082, 1088, 1099, 1090, 1100>>,
    <<1085, 1072, 1089, 1090, 1088, 1086, 1080, 1090, 1100>>,
    <<1087, 1086, 1089, 1084, 1086, 1090, 1088, 1077, 1090, 1100>>,
    <<1086, 1092, 1086, 1088, 1084, 1080, 1090, 1100>>,
    <<1091, 1079, 1085, 1072, 1090, 1100>>,
    <<1087, 1086, 1087, 1088, 1086, 1073, 1086, 1074, 1072, 1090, 1100>>,
    <<1087, 1088, 1086, 1074, 1077, 1088, 1080, 1090, 1100>>,
    <<1087, 1086, 1076, 1082, 1083, 1102, 1095, 1080, 1090, 1100>>,
    <<1085, 1072, 1095, 1072, 1090, 1100>> }

\* s contains v, letter case of s ignored (v is in lower case)
ContainsIgnoringCase(s, v) ==
  \E i \in 1..(Len(s) - Len(v) + 1) :
    \A j \in 1..Len(v) : ToLower(s[i + j - 1]) = v[j]

\* C19: every final message contains, letter case ignored, at least one of
\* the call-to-action verbs
C19_CallToAction ==
  pc = "rendered" => \E v \in CtaVerbs : ContainsIgnoringCase(tovOut, v)

\* position i of s holds the currency sign
IsTenge(s, i) == i \in 1..Len(s) /\ s[i] = TxtTenge[1]

\* C20: in every final message the currency sign follows its amount after
\* exactly one no-break space (U+00A0, code point 160), and no second
\* currency sign follows it
C20_CurrencySign ==
  pc = "rendered" =>
    \A i \in 1..Len(tovOut) :
      IsTenge(tovOut, i) =>
        /\ i > 2 /\ tovOut[i - 1] = 160 /\ ~IsWs(tovOut[i - 2])
        /\ ~IsTenge(tovOut, i + 1)
        /\ ~(IsTenge(tovOut, i + 2) /\ IsWs(tovOut[i + 1]))

(***************************************************************************)
(* The exclamation cap of the validator                                    *)
(***************************************************************************)
\* the positions of s that hold "!"
Exclamations(s) == {i \in 1..Len(s) : s[i] = 33}

\* how many characters other than white space stand before position i of s
NonWsBefore(s, i) == Cardinality({j \in 1..(i - 1) : ~IsWs(s[j])})

\* the leftmost position of a non-empty set of positions
Leftmost(ps) == CHOOSE i \in ps : \A j \in ps : i <= j

\* C21: a validated message contains at most one "!", and when the input (not
\* truncated) contains several, the one that remains is the leftmost of them:
\* the same text stands before it as stood before the first "!" of the input
C21_ExclamationCap ==
  pc \in {"rendered", "validated"} =>
    /\ Cardinality(Exclamations(tovOut)) <= 1
    /\ (Cardinality(Exclamations(tovIn)) > 1 /\ Len(tovIn) <= MaxMessageLen) =>
         /\ Exclamations(tovOut) # {}
         /\ NonWsBefore(tovOut, Leftmost(Exclamations(tovOut)))
              = NonWsBefore(tovIn, Leftmost(Exclamations(tovIn)))

(***************************************************************************)
(* Placeholder values                                                      *)
(***************************************************************************)
\* the travel card message whose placeholders hold the facts of travel_data
MessageFromFacts(client_name, travel_data, m) ==
  Format(get_template("travel_card", TRUE),
         [name |-> client_name, month |-> format_date(m),
          trip_count |-> Str(travel_data.trip_count),
          amount |-> format_amount(travel_data.travel_amount),
          cashback |-> format_amount(travel_data.potential_cashback)])

\* s ends with e
EndsWith(s, e) ==
  Len(s) >= Len(e) /\ SubSeq(s, Len(s) - Len(e) + 1, Len(s)) = e

\* C22: when the scenario result carries the facts of a placeholder (here the
\* travel_data of a travel card result), the message is filled in from them:
\* after the customer's name stands the text with those values; the static
\* defaults are used only for what the result lacks
C22_FactsBeforeDefaults ==
  (/\ pc = "rendered" /\ scored.scenario # 0
   /\ scored.result.travel_data.set) =>
    EndsWith(tovIn, MessageFromFacts(<<>>, scored.result.travel_data, month))

\* C23: no request the service handles writes to the Clients, Transactions,
\* Transfers or ProductBenefits tables
C23_ReadOnly == api.writes = {}

\* C24: while the export runs it holds at most one customer's data: a row is
\* handed to the output stream before the next customer is processed.  api.rows
\* are the rows held in the handler's io.StringIO buffer, which nothing
\* leaves before the loop is over
C24_Streaming ==
  (api.handler = "ExportCSV" /\ api.at = "loop") => Len(api.rows) <= 1

(***************************************************************************)
(* analytics: TransactionAnalyzer                                          *)
(***************************************************************************)
\* TransactionAnalyzer._empty_analysis
_empty_analysis ==
  [client_code |-> "", period_days |-> 0, total_transactions |-> 0,
   total_amount |-> 0]

\* TransactionAnalyzer.analyze_client_transactions on the rows the store
\* returns for the customer (the mean and the four nested analyses of the
\* returned dict are not modelled)
analyze_client_transactions(store, client_code, days) ==
  LET transactions == store.txs
  IN  IF transactions = <<>> THEN _empty_analysis
      ELSE [client_code |-> client_code, period_days |-> days,
            total_transactions |-> Len(transactions),
            total_amount |-> SumAmount(transactions, AnyRow)]

\* the customer codes and periods asked for
ClientCodes == {"TEST001", "42"}

Periods == {30, 90}

InitAnalytics ==
  /\ db \in Snapshots
  /\ RunIdle /\ ScoreIdle /\ RankIdle /\ TovIdle /\ ApiIdle

AnalyzeTransactions ==
  \E client_code \in ClientCodes, days \in Periods :
    /\ ~analysis.done
    /\ analysis' = [done |-> TRUE, asked |-> client_code,
                    result |-> analyze_client_transactions(db, client_code, days)]
    /\ UNCHANGED <<db, month, firstRun, runsLeft, api>>
    /\ UNCHANGED runVars /\ UNCHANGED scoreVars /\ UNCHANGED rankVars
    /\ UNCHANGED tovVars

NextAnalytics == AnalyzeTransactions

SpecAnalytics == InitAnalytics /\ [][NextAnalytics]_vars

\* C25: the transaction analysis of a customer without transactions in the
\* window has total_transactions = 0, total_amount = 0 and the client_code that
\* was asked for
C25_EmptyAnalysis ==
  (analysis.done /\ db.txs = <<>>) =>
    /\ analysis.result.total_transactions = 0
    /\ analysis.result.total_amount = 0
    /\ analysis.result.client_code = analysis.asked

(***************************************************************************)
(* One scenario object used for one customer after another                 *)
(***************************************************************************)
\* the attribute (travel_data, fx_data, ...) the scenario object holds after
\* analyze_client: what this call stored, else what was there before
LeftBehind(i, cd, prev) ==
  IF ~cd.found THEN prev
  ELSE CASE i = 1 -> Stashed(Travel_data(cd), prev)
         [] i = 2 -> Stashed(Premium_spending_data(cd), prev)
         [] i = 3 -> Stashed(Credit_online_spending_data(cd), prev)
         [] i = 4 -> Stashed(Fx_data(cd), prev)
         [] i = 5 -> Stashed(Multi_currency_activity_data(cd), prev)
         [] i = 9 -> Stashed(Gold_diversification_data(cd), prev)
         [] i = 10 -> Stashed(Cash_credit_activity_data(cd), prev)
         [] OTHER -> prev

InitReuse ==
  /\ db \in Snapshots
  /\ RunIdle /\ ScoreIdle /\ RankIdle /\ TovIdle /\ ApiIdle

\* scenario.analyze_client on a scenario object that a pipeline keeps between
\* customers: first for an earlier customer, then for the customer of db
AnalyzeOnObject ==
  \E i \in 1..NumScenarios, earlier \in EvalSnapshots :
    LET first == pc = "idle"
        cd == get_client_data(IF first THEN earlier ELSE db, NoFails)
        prev == IF first THEN NoStash ELSE scored.left
    IN  /\ pc \in {"idle", "earlier"}
        /\ first \/ (i = scored.scenario /\ earlier = scored.earlier)
        /\ pc' = IF first THEN "earlier" ELSE "later"
        /\ scored' = [scenario |-> i, earlier |-> earlier,
                      result |-> analyze_client(i, cd, prev),
                      left |-> LeftBehind(i, cd, prev)]
        /\ UNCHANGED <<db, idx, elapsed, reads, month, notifications, raised,
                       timedOut, failedReads, blockedReads, finishedAt, firstRun,
                       runsLeft, prio>>
        /\ UNCHANGED rankVars /\ UNCHANGED tovVars /\ UNCHANGED apiVars

NextReuse == AnalyzeOnObject

SpecReuse == InitReuse /\ [][NextReuse]_vars

\* C26: the result a scenario object gives for a customer is the result a fresh
\* scenario object gives for that customer, whoever it analysed before
C26_NoCarryOver ==
  pc = "later" =>
    scored.result = analyze_client(scored.scenario, get_client_data(db, NoFails), NoStash)

(***************************************************************************)
(* A run while the store is being written to                               *)
(***************************************************************************)
\* another client of the store replaces the customer's rows while the
\* evaluator's loop is running
StoreWrite ==
  /\ pc = "loop"
  /\ db' \in EvalSnapshots \ {db}
  /\ UNCHANGED <<month, firstRun, runsLeft>>
  /\ UNCHANGED runVars /\ UNCHANGED scoreVars /\ UNCHANGED rankVars
  /\ UNCHANGED tovVars /\ UNCHANGED apiVars

NextConcurrent == IterateHealthy \/ DeadlineBreak \/ Finish \/ StoreWrite

SpecConcurrent == Init /\ [][NextConcurrent]_vars

\* C27: the notifications of one run are all computed from one and the same
\* snapshot of the customer's data, whatever happens to the store meanwhile
C27_OneSnapshot ==
  pc = "done" =>
    \E snapshot \in EvalSnapshots :
      \A k \in 1..Len(notifications) :
        notifications[k] =
          NotificationOf(snapshot, ScenarioOf(notifications[k].product_key), month)

(***************************************************************************)
(* The low-activity student                                                *)
(***************************************************************************)
\* categories a transaction of the student may carry: three travel categories,
\* two premium ones, one that is in no scenario's list
StudentCategories ==
  {"Taksi", "Oteli", "Puteshestviya", "Kafe i restorany", "Kino", "Edim doma"}

StudentAmounts == {1000, 20000}

\* Student, balance 40 000, three transactions within the period, no transfers
StudentSnapshots ==
  {[client |-> Client("Student", 40000),
    txs |-> <<Tx(a, c1, 10, 5), Tx(a, c2, 10, 4), Tx(a, c3, 9, 3)>>,
    trs |-> <<>>] :
     a \in StudentAmounts, c1 \in StudentCategories, c2 \in StudentCategories,
     c3 \in StudentCategories}

InitStudent ==
  db \in StudentSnapshots /\ RunIdle /\ ScoreIdle /\ RankIdle /\ TovIdle /\ ApiIdle

SpecStudent == InitStudent /\ [][NextScore]_vars

\* C28: for a Student with balance 40 000, three transactions of any categories
\* and no transfers, every scenario returns a score of at most 0.4
C28_LowActivityStudent ==
  scored.scenario # 0 => scored.result.score <= (4 * SCALE) \div 10

(***************************************************************************)
(* The status sub-score of the scenarios                                   *)
(***************************************************************************)
\* the scenarios that compute a score from the status alone
StatusScenarios == {1, 2, 6, 7, 8, 9, 10}

\* scenario i's _analyze_client_status / _analyze_status_suitability
status_score(i, cd) ==
  LET status == cd.client_info.status
  IN  CASE i = 1 -> Travel_analyze_client_status(cd)
        [] i = 2 -> Premium_analyze_client_status(status)
        [] i = 6 -> Savings_analyze_status_suitability(status)
        [] i = 7 -> Accum_analyze_status_suitability(status)
        [] i = 8 -> Invest_analyze_status_suitability(status)
        [] i = 9 -> Gold_analyze_status_suitability(status)
        [] i = 10 -> Cash_analyze_status_suitability(status)

\* one scenario computes the status sub-score of the stored customer
ScoreStatus ==
  \E i \in StatusScenarios :
    LET cd == get_client_data(db, NoFails)
    IN  /\ cd.found
        /\ scored' = [scenario |-> i,
                      result |-> format_analysis_result(status_score(i, cd), 0)]
        /\ UNCHANGED <<db, month, firstRun, runsLeft>>
        /\ UNCHANGED runVars /\ UNCHANGED rankVars /\ UNCHANGED tovVars
        /\ UNCHANGED prio /\ UNCHANGED apiVars

NextStatus == ScoreStatus

SpecStatus == InitScore /\ [][NextStatus]_vars

\* the table of status scores: Premium 1.0, Salary 0.8, Standard 0.6,
\* Student 0.4, anything else 0.2
StatusTable(status) ==
  CASE status = "Premialnyi klient" -> SCALE
    [] status = "Zarplatnyi klient" -> (8 * SCALE) \div 10
    [] status = "Standartnyi klient" -> (6 * SCALE) \div 10
    [] status = "Student" -> (4 * SCALE) \div 10
    [] OTHER -> (2 * SCALE) \div 10

\* C29: in every scenario the status sub-score is 1.0 for Premium, 0.8 for
\* Salary, 0.6 for Standard, 0.4 for Student and 0.2 for any other status
C29_StatusTable ==
  scored.scenario # 0 => scored.result.score = StatusTable(db.client.status)

\* C30: the expected benefit the gold bars scenario returns is
\* 0.035 * balance * score for every customer
C30_GoldBenefit ==
  (scored.scenario = 9 /\ db.client.found) =>
    scored.result.expected_benefit =
      MulScore((db.client.balance * 35) \div 1000, scored.result.score)

====
